---- MODULE Spec2Model ----
(***************************************************************************)
(* Model of the update checker of bin/check_updates.py: the registry       *)
(* client (_fetch_json), the walk that derives the engine candidates, the  *)
(* cross-axis search find_compatible_updates with                          *)
(* check_full_compatibility, save_compatibility_report and the version     *)
(* comparator _compare_versions; of the mod resolution of                  *)
(* bin/validate_config.py and bin/download.py; and of the download manager *)
(* of bin/download.py: build_download_list, download_all, _download_file   *)
(* and download_from_cache.                                                *)
(* The search and the downloads take one step per remote call; the remote  *)
(* answers are inputs drawn from small sets. Each part has a specification *)
(* of its own over the one list of variables.                              *)
(***************************************************************************)
EXTENDS Integers, Sequences, FiniteSets, TLC

\* ------------------------------------------------------------------ bounds
MaxManifest == 2    \* entries in the engine manifest of a search
MaxWalk == 4        \* entries in the engine manifest of a candidate walk
MaxLoaderItems == 2 \* items in a loader manifest
MaxMods == 2        \* entries of the configured mod list
MaxHits == 1        \* hits of one project search
MaxModVersions == 1 \* version entries of one mod version query
MaxSegs == 2        \* segments of a version string of a compared pair
MaxSegs3 == 1       \* segments of a version string of a compared triple
MaxNumSegs == 3     \* segments of an all-numeric version string
MaxCandidates == 2  \* version entries the mod registry lists for a project
MaxBuildMods == 2   \* mods of the config build_download_list resolves
MaxListed == 1      \* version entries listed for a mod under validation

\* ------------------------------------------------------------ value sets
NoneStr == "None"       \* Python None where a string is expected
NoName == "NoName"      \* a mod entry without a (non-empty) 'name'
NoUrl == "NoUrl"        \* a file entry without a 'url' key
mc_version == "E0"      \* config minecraft.version
fabric_version == "L0"  \* config fabric.version

EngineIds == {"E0", "E1", "E2"}
EntryTypes == {"release", "snapshot"}
LoaderIds == {"L1", "L2"}
ModNames == {"M1", "M2"}
ProjectIds == {"P1"}
HttpKinds == {"ok", "404", "5xx", "timeout", "malformed"}
FailKinds == HttpKinds \ {"ok"}
UnavailableKinds == {"5xx", "timeout", "malformed"}

SeqsUpTo(S, n) == UNION {[1..k -> S] : k \in 0..n}

\* Python Optional: None, or a value
None == [isNone |-> TRUE]
Some(b) == [isNone |-> FALSE, body |-> b]

\* manifest payloads: {} , {latest: ..} and {latest: .., versions: [...]}
VersionEntries == [id : EngineIds, type : EntryTypes]
ManifestBodies ==
    {[keys |-> {}, versions |-> <<>>], [keys |-> {"latest"}, versions |-> <<>>]}
    \cup {[keys |-> {"latest", "versions"}, versions |-> s] :
            s \in SeqsUpTo(VersionEntries, MaxManifest)}

\* loader payloads: a list of items, each with or without loader.version
LoaderItems == LoaderIds \cup {NoneStr}
LoaderBodies == SeqsUpTo(LoaderItems, MaxLoaderItems)

\* search payloads: with or without 'hits'
Hits == [slug : {"m1", "m2"}, title : {"M1", "Other"}, project_id : ProjectIds]
SearchBodies ==
    {[hasHits |-> FALSE, hits |-> <<>>]}
    \cup {[hasHits |-> TRUE, hits |-> s] : s \in SeqsUpTo(Hits, MaxHits)}

\* mod version payloads: a list of version entries
FileLists == {[hasFiles |-> FALSE, files |-> <<>>],
              [hasFiles |-> TRUE, files |-> <<>>],
              [hasFiles |-> TRUE, files |-> <<"U1">>],
              [hasFiles |-> TRUE, files |-> <<NoUrl>>]}
ModVersionEntries ==
    {[version_number |-> v, hasFiles |-> f.hasFiles, files |-> f.files] :
        v \in {"V1", NoneStr}, f \in FileLists}
\* the first entry is any entry; the entries behind it, which the checker
\* never reads, are complete ones
OlderVersionEntry ==
    [version_number |-> "V1", hasFiles |-> TRUE, files |-> <<"U1">>]
ModVersionBodies ==
    {<<>>}
    \cup UNION {{[i \in 1..k |-> IF i = 1 THEN first ELSE OlderVersionEntry] :
                   first \in ModVersionEntries} : k \in 1..MaxModVersions}

\* an HTTP exchange: what the transport delivered
Responses(Bodies) ==
    {[kind |-> "ok", body |-> b] : b \in Bodies}
    \cup {[kind |-> k, body |-> <<>>] : k \in FailKinds}

ModLists == SeqsUpTo(ModNames \cup {NoName}, MaxMods)

\* ---------------------------------------------------------------- state
VARIABLES
    mods,               \* self.mods: the configured mod list (names)
    pc,                 \* position of the control flow
    newer_mc_versions,  \* engine candidates
    mc_i,               \* index of mc_ver in newer_mc_versions
    fabric_versions,    \* loader candidates of the current engine candidate
    fab_i,              \* index of fabric_ver in fabric_versions
    mod_i,              \* index of mod in self.mods (check_full_compatibility)
    project_id,         \* project id of the mod being resolved
    mod_details,        \* check_full_compatibility: resolved mods
    missing_mods,       \* check_full_compatibility: unresolved mods
    ret,                \* value returned by find_compatible_updates
    report,             \* document written by save_compatibility_report
    manifestAnswer,     \* history: how the manifest fetch went
    newerExpected,      \* history: the release ids in front of the current one
    fabricExpected,     \* history: the versions the loader registry listed
    outcome,            \* history: why the search ended
    loaderCalls,        \* history: the loader fetches and how they went
    compatCalls,        \* history: check_full_compatibility calls and verdicts
    modQueried,         \* history: engine loop positions with mod registry calls
    resolvedFor,        \* history: the (engine, loader) call that resolved a mod
    fetched,            \* registry client alone: (http kind, value returned)
    last_json,          \* registry client alone: the value last returned
    versions,           \* candidate walk: manifest entries
    walk_newer,         \* candidate walk: collected ids
    current_found,      \* candidate walk: flag
    v1,                 \* comparator alone: first version string
    v2,                 \* comparator alone: second version string
    v3,                 \* comparator alone: third version string
    result,             \* comparator alone: the values _compare_versions gave
    mod_payload,        \* mod resolution alone: the registry's version entries
    pinned,             \* mod resolution alone: the version the config pins
    resolution,         \* mod resolution alone: what the provider returned
    project_info,       \* mod resolution alone: the project info classified
    fs,                 \* downloads: the files at the destination paths
    cache_file,         \* downloads: the document in the cache file
    cache,              \* downloads: self.cache
    download_list,      \* downloads: the plan being executed
    dl_i,               \* downloads: index of the item in the plan
    success_count,      \* downloads: items counted as successful
    fail_count,         \* downloads: items counted as failed
    stale_warned,       \* downloads: the version mismatch warning was printed
    mode,               \* history: how main obtained the plan
    itemLog,            \* history: how each item of this run was handled
    dlLog,              \* history: the _download_file calls of this run
    replayed,           \* history: the cache document a replay started from
    curseforge_api_key, \* downloads: self.curseforge_api_key
    registry_calls,     \* history: the registry calls of build_download_list
    args,               \* check_updates.py main: the parsed command line
    mc_result,          \* main: what check_minecraft_updates returned
    fabric_result,      \* main: what check_fabric_updates returned
    mod_updates,        \* main: what check_mod_updates returned
    updates,            \* check_mod_updates: the updates found so far
    up_to_date,         \* check_mod_updates: counter
    has_updates,        \* check_mod_updates: counter
    upd_errors,         \* check_mod_updates: counter 'errors'
    update_data,        \* save_updates: the document written
    main_calls,         \* history: the functions main has called
    modLog,             \* history: what check_mod_updates found for each mod
    registry,           \* the mod registry's contents, when they are fixed
    val_in,             \* validate_config.py: the files and registries met
    errors,             \* ConfigValidator.errors
    warnings,           \* ConfigValidator.warnings
    step_ret,           \* validate: what each step returned
    all_valid,          \* validate_mod_versions: the local all_valid
    config_modified,    \* ConfigValidator.config_modified
    yaml_saved,         \* the config file was written back
    validate_ret        \* what validate returned

vars == <<mods, pc, newer_mc_versions, mc_i, fabric_versions, fab_i, mod_i,
          project_id, mod_details, missing_mods, ret, report, manifestAnswer,
          newerExpected, fabricExpected, outcome, loaderCalls, compatCalls,
          modQueried, resolvedFor, fetched, last_json, versions, walk_newer,
          current_found, v1, v2, v3, result, mod_payload, pinned, resolution,
          project_info,
          fs, cache_file, cache, download_list, dl_i, success_count,
          fail_count, stale_warned, mode, itemLog, dlLog, replayed,
          curseforge_api_key, registry_calls, args, mc_result,
          fabric_result, mod_updates, updates, up_to_date, has_updates,
          upd_errors, update_data, main_calls, modLog, registry, val_in,
          errors, warnings, step_ret, all_valid, config_modified, yaml_saved,
          validate_ret>>

engineVars == <<newer_mc_versions, mc_i, manifestAnswer, newerExpected>>
loaderVars == <<fabric_versions, fab_i, fabricExpected>>
modVars == <<mod_i, project_id, mod_details, missing_mods, resolvedFor>>
endVars == <<ret, outcome>>
clientVars == <<fetched, last_json>>
walkVars == <<versions, walk_newer, current_found>>
cmpVars == <<v1, v2, v3, result>>
resVars == <<mod_payload, pinned, resolution, project_info>>
dlVars == <<fs, cache_file, cache, download_list, dl_i, success_count,
            fail_count, stale_warned, mode, itemLog, dlLog, replayed>>
bldVars == <<curseforge_api_key, registry_calls>>
regVars == <<registry>>
valVars == <<val_in, errors, warnings, step_ret, all_valid, config_modified,
             yaml_saved, validate_ret>>
mainVars == <<args, mc_result, fabric_result, mod_updates, updates,
              up_to_date, has_updates, upd_errors, update_data, main_calls,
              modLog>>

EmptyDict == [n \in {} |-> NoneStr]

\* ------------------------------------------------------- registry client
\* _fetch_json: the parsed payload, or None on 404 and on any other failure
FetchJson(resp) ==
    IF resp.kind = "ok" THEN Some(resp.body)
    ELSE IF resp.kind = "404" THEN None
    ELSE None

\* --------------------------------------------------- engine candidates
\* the loop over manifest entries: stop at the current version, collect
\* the ids of release entries seen before it
RECURSIVE WalkFrom(_, _, _)
WalkFrom(vs, i, acc) ==
    IF i > Len(vs) THEN acc
    ELSE IF vs[i].id = mc_version THEN acc
    ELSE IF vs[i].type = "release" THEN WalkFrom(vs, i + 1, Append(acc, vs[i].id))
    ELSE WalkFrom(vs, i + 1, acc)

\* variant: the walk does not stop at the current version
RECURSIVE WalkPast(_, _, _)
WalkPast(vs, i, acc) ==
    IF i > Len(vs) THEN acc
    ELSE IF vs[i].id # mc_version /\ vs[i].type = "release"
         THEN WalkPast(vs, i + 1, Append(acc, vs[i].id))
    ELSE WalkPast(vs, i + 1, acc)

\* variant: the walk collects entries of every type
RECURSIVE WalkAllTypes(_, _, _)
WalkAllTypes(vs, i, acc) ==
    IF i > Len(vs) THEN acc
    ELSE IF vs[i].id = mc_version THEN acc
    ELSE WalkAllTypes(vs, i + 1, Append(acc, vs[i].id))

NewerReleases_NoStop(vs) == WalkPast(vs, 1, <<>>)
NewerReleases_AllTypes(vs) == WalkAllTypes(vs, 1, <<>>)
NewerReleases(vs) == WalkFrom(vs, 1, <<>>)

\* manifest.get('versions', [])
ManifestVersions(manifest) ==
    IF "versions" \in manifest.keys THEN manifest.versions ELSE <<>>

\* ---------------------------------------------------- loader candidates
RECURSIVE ExtractFrom(_, _, _)
ExtractFrom(items, i, acc) ==
    IF i > Len(items) THEN acc
    ELSE IF items[i] # NoneStr THEN ExtractFrom(items, i + 1, Append(acc, items[i]))
    ELSE ExtractFrom(items, i + 1, acc)

\* variant: the versions come out newest last
RECURSIVE ExtractReversed(_, _, _)
ExtractReversed(items, i, acc) ==
    IF i > Len(items) THEN acc
    ELSE IF items[i] # NoneStr THEN ExtractReversed(items, i + 1, <<items[i]>> \o acc)
    ELSE ExtractReversed(items, i + 1, acc)

ExtractFabricVersions_Reversed(items) == ExtractReversed(items, 1, <<>>)
ExtractFabricVersions(items) == ExtractFrom(items, 1, <<>>)

\* list.index(x): position of the first occurrence
IndexOf(s, x) == CHOOSE i \in 1..Len(s) : s[i] = x /\ \A j \in 1..(i - 1) : s[j] # x

\* ------------------------------------------------------- mod registry
\* str.lower() on the names that occur
Lower(s) ==
    CASE s = "M1" -> "m1"
      [] s = "M2" -> "m2"
      [] s = "Other" -> "other"
      [] OTHER -> s

HitMatches(hit, mod_name) ==
    \/ Lower(hit.slug) = Lower(mod_name)
    \/ Lower(hit.title) = Lower(mod_name)

\* _search_modrinth_project: the first hit whose slug or title equals the
\* name ignoring case, else the first hit; None without hits
SearchModrinthProject(mod_name, resp) ==
    LET results == FetchJson(resp) IN
    IF results.isNone THEN NoneStr
    ELSE IF ~results.body.hasHits THEN NoneStr
    ELSE LET hits == results.body.hits IN
         IF Len(hits) = 0 THEN NoneStr
         ELSE IF \E i \in 1..Len(hits) : HitMatches(hits[i], mod_name)
              THEN LET k == CHOOSE i \in 1..Len(hits) :
                                /\ HitMatches(hits[i], mod_name)
                                /\ \A j \in 1..(i - 1) : ~HitMatches(hits[j], mod_name)
                   IN hits[k].project_id
              ELSE hits[1].project_id

\* _get_mod_versions: the payload, or [] when the fetch gave nothing
GetModVersions(resp) ==
    LET vs == FetchJson(resp) IN
    IF vs.isNone THEN <<>>
    ELSE IF Len(vs.body) = 0 THEN <<>>
    ELSE vs.body

\* latest.get('files', [{}])[0].get('url', 'N/A'); "IndexError" on files == []
LatestUrl(latest) ==
    IF ~latest.hasFiles THEN "N/A"
    ELSE IF Len(latest.files) = 0 THEN "IndexError"
    ELSE IF latest.files[1] = NoUrl THEN "N/A"
    ELSE latest.files[1]

DictSet(d, k, v) == [n \in DOMAIN d \cup {k} |-> IF n = k THEN v ELSE d[n]]

\* all_compatible = len(missing_mods) == 0
AllCompatible_Lenient(missing) == Len(missing) <= 1
AllCompatible(missing) == Len(missing) = 0

\* ------------------------------------------------------ search control
\* next position of the engine loop after 'no Fabric support': break
OnNoFabricSupport_Continue(i, newer) == i + 1
OnNoFabricSupport(i, newer) == Len(newer) + 1

\* next position of the engine loop after the loader loop ran out: break
OnLoadersExhausted_Continue(i, newer) == i + 1
OnLoadersExhausted(i, newer) == Len(newer) + 1

\* next position of the loader loop after an incompatible pair: next one
OnIncompatible_Break(k, fabrics) == Len(fabrics) + 1
OnIncompatible(k, fabrics) == k + 1

\* the dict returned on success
CompatResult(mc_ver, fabric_ver, details, newer, fabrics) ==
    [mc_current |-> mc_version,
     mc_new |-> mc_ver,
     fabric_current |-> fabric_version,
     fabric_new |-> fabric_ver,
     mods |-> details,
     mc_versions_tested |-> IndexOf(newer, mc_ver),
     fabric_versions_tested |-> IndexOf(fabrics, fabric_ver)]

\* save_compatibility_report: the document written for compat_data
Report(compat_data) ==
    IF compat_data.isNone
    THEN [compatible_update_found |-> FALSE,
          message |-> "No compatible update configuration found"]
    ELSE [compatible_update_found |-> TRUE,
          update_type |-> "full_compatibility_check",
          mc_target |-> compat_data.body.mc_new,
          fabric_target |-> compat_data.body.fabric_new,
          mods |-> compat_data.body.mods,
          mc_versions_tested |-> compat_data.body.mc_versions_tested,
          fabric_versions_tested |-> compat_data.body.fabric_versions_tested]

\* ------------------------------------------------------------- history
\* the release ids in front of the first entry naming the current version
IsRelease(e) == e.type = "release"
FirstCurrent(vs) ==
    IF \E i \in 1..Len(vs) : vs[i].id = mc_version
    THEN CHOOSE i \in 1..Len(vs) :
            vs[i].id = mc_version /\ \A j \in 1..(i - 1) : vs[j].id # mc_version
    ELSE Len(vs) + 1
ReleasesBeforeCurrent(vs) ==
    LET sel == SelectSeq(SubSeq(vs, 1, FirstCurrent(vs) - 1), IsRelease)
    IN [i \in 1..Len(sel) |-> sel[i].id]

\* the versions of the items of a loader payload, in the payload's order
HasVersion(item) == item # NoneStr
ListedVersions(items) == SelectSeq(items, HasVersion)

\* how an exchange with a registry went
AnswerClass(resp, n) ==
    IF resp.kind = "404" THEN "not_found"
    ELSE IF resp.kind # "ok" THEN "unavailable"
    ELSE IF n = 0 THEN "zero"
    ELSE "some"

Finished == pc \in {"returned", "saved"}
Succeeded == Finished /\ ~ret.isNone

\* ------------------------------------------------------------------ Init
InitSearchVars ==
    /\ pc = "start"
    /\ newer_mc_versions = <<>>
    /\ mc_i = 0
    /\ fabric_versions = <<>>
    /\ fab_i = 0
    /\ mod_i = 0
    /\ project_id = NoneStr
    /\ mod_details = EmptyDict
    /\ missing_mods = <<>>
    /\ ret = None
    /\ report = None
    /\ manifestAnswer = "none"
    /\ newerExpected = <<>>
    /\ fabricExpected = <<>>
    /\ outcome = "running"
    /\ loaderCalls = <<>>
    /\ compatCalls = <<>>
    /\ modQueried = {}
    /\ resolvedFor = EmptyDict

InitClientVars ==
    /\ fetched = {}
    /\ last_json = None

InitWalkVars ==
    /\ versions = <<>>
    /\ walk_newer = <<>>
    /\ current_found = FALSE

InitCmpVars ==
    /\ v1 = <<>>
    /\ v2 = <<>>
    /\ v3 = <<>>
    /\ result = EmptyDict

InitResVars ==
    /\ mod_payload = <<>>
    /\ pinned = NoneStr
    /\ resolution = None
    /\ project_info = None

InitDlVars ==
    /\ fs = EmptyDict
    /\ cache_file = None
    /\ cache = None
    /\ download_list = <<>>
    /\ dl_i = 0
    /\ success_count = 0
    /\ fail_count = 0
    /\ stale_warned = FALSE
    /\ mode = "none"
    /\ itemLog = <<>>
    /\ dlLog = <<>>
    /\ replayed = None

\* no fixed contents: the registry answers each call as it will
AnyRegistry == [search |-> EmptyDict, versions |-> EmptyDict]

InitRegVars == registry = AnyRegistry

\* validate's steps, none of which has returned
ValidateSteps == {"structure", "minecraft", "fabric", "mods"}
Unset == "unset"
NoStepRet == [st \in ValidateSteps |-> Unset]

\* ConfigValidator.__init__
InitValidatorFields ==
    /\ errors = <<>>
    /\ warnings = <<>>
    /\ step_ret = NoStepRet
    /\ all_valid = TRUE
    /\ config_modified = FALSE
    /\ yaml_saved = FALSE
    /\ validate_ret = Unset

InitValVars ==
    /\ val_in = [config |-> "ok", mappings |-> "ok", faults |-> FALSE,
                 minecraft_version |-> mc_version,
                 fabric_version |-> fabric_version, n_mods |-> 0]
    /\ InitValidatorFields

InitBldVars ==
    /\ curseforge_api_key = NoneStr
    /\ registry_calls = <<>>

\* argparse: no flag given
NoArgs == [all |-> FALSE, mc |-> FALSE, fabric |-> FALSE, mods |-> FALSE,
           full_check |-> FALSE, mc_version |-> NoneStr]

\* main lines 713-715: the results before any check has run
NoResult(current) == [current |-> current, latest |-> NoneStr, newer |-> <<>>]

InitMainResults ==
    /\ mc_result = NoResult(mc_version)
    /\ fabric_result = NoResult(fabric_version)
    /\ mod_updates = EmptyDict
    /\ updates = EmptyDict
    /\ up_to_date = 0
    /\ has_updates = 0
    /\ upd_errors = 0
    /\ update_data = None
    /\ main_calls = <<>>
    /\ modLog = <<>>

InitMainVars ==
    /\ args = NoArgs
    /\ InitMainResults

Init ==
    /\ mods \in ModLists
    /\ InitSearchVars
    /\ InitValVars
    /\ InitRegVars
    /\ InitMainVars
    /\ InitBldVars
    /\ InitClientVars
    /\ InitWalkVars
    /\ InitCmpVars
    /\ InitResVars
    /\ InitDlVars

\* ------------------------------------------------- find_compatible_updates
\* lines 410-415 when the engine loop is left at position j, else the next
\* iteration of the engine loop
EngineLoopGoto(j, why) ==
    IF j > Len(newer_mc_versions)
    THEN /\ pc' = "returned"
         /\ ret' = None
         /\ outcome' = why
         /\ mc_i' = mc_i
    ELSE /\ pc' = "engine_loop"
         /\ mc_i' = j
         /\ UNCHANGED <<ret, outcome>>

\* lines 313-338: fetch the manifest and derive the engine candidates
FetchManifest ==
    /\ pc = "start"
    /\ \E resp \in Responses(ManifestBodies) :
        LET manifest == FetchJson(resp) IN
        IF manifest.isNone \/ manifest.body.keys = {}
        THEN /\ manifestAnswer' = AnswerClass(resp, 0)
             /\ pc' = "returned"
             /\ ret' = None
             /\ outcome' = "manifest_failed"
             /\ UNCHANGED <<newer_mc_versions, newerExpected, mc_i>>
        ELSE LET newer == NewerReleases(ManifestVersions(manifest.body)) IN
             /\ manifestAnswer' = "some"
             /\ newer_mc_versions' = newer
             /\ newerExpected' = ReleasesBeforeCurrent(ManifestVersions(manifest.body))
             /\ IF Len(newer) = 0
                THEN /\ pc' = "returned"
                     /\ ret' = None
                     /\ outcome' = "no_newer"
                     /\ mc_i' = mc_i
                ELSE /\ pc' = "engine_loop"
                     /\ mc_i' = 1
                     /\ UNCHANGED <<ret, outcome>>
    /\ UNCHANGED <<mods, valVars, regVars, mainVars, bldVars, cmpVars, resVars, dlVars, loaderVars, modVars, report, loaderCalls, compatCalls,
                   modQueried, clientVars, walkVars>>

\* lines 341-373: fetch the loader candidates of mc_ver; break without any,
\* else enter the loader loop and check_full_compatibility (lines 262-263)
FetchLoaders ==
    /\ pc = "engine_loop"
    /\ \E resp \in Responses(LoaderBodies) :
        LET data == FetchJson(resp)
            mc_ver == newer_mc_versions[mc_i] IN
        IF data.isNone \/ Len(data.body) = 0
        THEN /\ loaderCalls' = Append(loaderCalls,
                    [i |-> mc_i, mc |-> mc_ver, answer |-> AnswerClass(resp, 0), n |-> 0])
             /\ EngineLoopGoto(OnNoFabricSupport(mc_i, newer_mc_versions),
                               "no_loader_support")
             /\ UNCHANGED <<loaderVars, modVars>>
        ELSE LET fabrics == ExtractFabricVersions(data.body) IN
             /\ loaderCalls' = Append(loaderCalls,
                    [i |-> mc_i, mc |-> mc_ver,
                     answer |-> AnswerClass(resp, Len(ListedVersions(data.body))),
                     n |-> Len(ListedVersions(data.body))])
             /\ fabricExpected' = ListedVersions(data.body)
             /\ fabric_versions' = fabrics
             /\ IF Len(fabrics) = 0
                THEN /\ EngineLoopGoto(OnNoFabricSupport(mc_i, newer_mc_versions),
                                       "no_loader_support")
                     /\ UNCHANGED <<fab_i, modVars>>
                ELSE /\ pc' = "mod_loop"
                     /\ fab_i' = 1
                     /\ mod_i' = 1
                     /\ mod_details' = EmptyDict
                     /\ missing_mods' = <<>>
                     /\ resolvedFor' = EmptyDict
                     /\ UNCHANGED <<mc_i, ret, outcome, project_id>>
    /\ UNCHANGED <<mods, valVars, regVars, mainVars, bldVars, cmpVars, resVars, dlVars, newer_mc_versions, manifestAnswer, newerExpected,
                   report, compatCalls, modQueried, clientVars, walkVars>>

\* lines 265-268: a mod entry without a name is passed over
SkipUnnamedMod ==
    /\ pc = "mod_loop"
    /\ mod_i <= Len(mods)
    /\ mods[mod_i] = NoName
    /\ mod_i' = mod_i + 1
    /\ UNCHANGED <<mods, valVars, regVars, mainVars, bldVars, cmpVars, resVars, dlVars, pc, engineVars, loaderVars, project_id, mod_details,
                   missing_mods, resolvedFor, endVars, report, loaderCalls,
                   compatCalls, modQueried, clientVars, walkVars>>

\* lines 270-274: search the project of the mod
SearchProjectFrom(answers) ==
    /\ \E resp \in answers :
        LET pid == SearchModrinthProject(mods[mod_i], resp) IN
        IF pid = NoneStr
        THEN /\ missing_mods' = Append(missing_mods, mods[mod_i])
             /\ mod_i' = mod_i + 1
             /\ UNCHANGED <<pc, project_id>>
        ELSE /\ project_id' = pid
             /\ pc' = "mod_versions"
             /\ UNCHANGED <<missing_mods, mod_i>>
    /\ modQueried' = modQueried \cup {mc_i}
    /\ UNCHANGED <<mods, valVars, regVars, mainVars, bldVars, cmpVars, resVars, dlVars, engineVars, loaderVars, mod_details, resolvedFor,
                   endVars, report, loaderCalls, compatCalls, clientVars,
                   walkVars>>

\* the registry answers the search as it will
SearchProject ==
    /\ pc = "mod_loop"
    /\ mod_i <= Len(mods)
    /\ mods[mod_i] # NoName
    /\ SearchProjectFrom(Responses(SearchBodies))

\* lines 276-294: fetch the versions of the mod for mc_version and take the
\* first one; project_id is not read again before the next search sets it
FetchModVersionsFrom(answers) ==
    /\ \E resp \in answers :
        LET vs == GetModVersions(resp)
            mod_name == mods[mod_i] IN
        IF Len(vs) = 0 \/ vs[1].version_number = NoneStr
        THEN /\ missing_mods' = Append(missing_mods, mod_name)
             /\ mod_i' = mod_i + 1
             /\ pc' = "mod_loop"
             /\ UNCHANGED <<mod_details, resolvedFor, outcome>>
        ELSE IF LatestUrl(vs[1]) = "IndexError"
        THEN /\ pc' = "crashed"
             /\ outcome' = "crash"
             /\ UNCHANGED <<missing_mods, mod_i, mod_details, resolvedFor>>
        ELSE /\ mod_details' = DictSet(mod_details, mod_name,
                                 [version |-> vs[1].version_number,
                                  url |-> LatestUrl(vs[1]),
                                  project_id |-> project_id])
             /\ resolvedFor' = DictSet(resolvedFor, mod_name,
                                 <<newer_mc_versions[mc_i], fabric_versions[fab_i]>>)
             /\ mod_i' = mod_i + 1
             /\ pc' = "mod_loop"
             /\ UNCHANGED <<missing_mods, outcome>>
    /\ project_id' = NoneStr
    /\ modQueried' = modQueried \cup {mc_i}
    /\ UNCHANGED <<mods, valVars, regVars, mainVars, bldVars, cmpVars, resVars, dlVars, engineVars, loaderVars, ret, report, loaderCalls,
                   compatCalls, clientVars, walkVars>>

\* the registry answers the version query as it will
FetchModVersions ==
    /\ pc = "mod_versions"
    /\ FetchModVersionsFrom(Responses(ModVersionBodies))

\* lines 296-297 and 375-408: the verdict of check_full_compatibility and
\* what the loader loop does with it
CompatVerdict ==
    /\ pc = "mod_loop"
    /\ mod_i > Len(mods)
    /\ LET compatible == AllCompatible(missing_mods)
           mc_ver == newer_mc_versions[mc_i]
           fabric_ver == fabric_versions[fab_i]
           k == OnIncompatible(fab_i, fabric_versions) IN
       /\ compatCalls' = Append(compatCalls,
                            [i |-> mc_i, mc |-> mc_ver, fabric |-> fabric_ver,
                             ok |-> compatible, missed |-> Len(missing_mods) > 0])
       /\ IF compatible
          THEN /\ pc' = "returned"
               /\ ret' = Some(CompatResult(mc_ver, fabric_ver, mod_details,
                                           newer_mc_versions, fabric_versions))
               /\ outcome' = "success"
               /\ UNCHANGED <<mc_i, fab_i, modVars>>
          ELSE IF k <= Len(fabric_versions)
          THEN /\ fab_i' = k
               /\ mod_i' = 1
               /\ mod_details' = EmptyDict
               /\ missing_mods' = <<>>
               /\ resolvedFor' = EmptyDict
               /\ UNCHANGED <<pc, mc_i, ret, outcome, project_id>>
          ELSE /\ EngineLoopGoto(OnLoadersExhausted(mc_i, newer_mc_versions),
                                 "loaders_exhausted")
               /\ UNCHANGED <<fab_i, modVars>>
    /\ UNCHANGED <<mods, valVars, regVars, mainVars, bldVars, cmpVars, resVars, dlVars, newer_mc_versions, manifestAnswer, newerExpected,
                   fabric_versions, fabricExpected, report, loaderCalls,
                   modQueried, clientVars, walkVars>>

\* main, lines 704-708: the report of the value returned
SaveCompatibilityReport ==
    /\ pc = "returned"
    /\ report' = Some(Report(ret))
    /\ pc' = "saved"
    /\ UNCHANGED <<mods, valVars, regVars, mainVars, bldVars, cmpVars, resVars, dlVars, engineVars, loaderVars, modVars, endVars, loaderCalls,
                   compatCalls, modQueried, clientVars, walkVars>>

Next ==
    \/ FetchManifest
    \/ FetchLoaders
    \/ SkipUnnamedMod
    \/ SearchProject
    \/ FetchModVersions
    \/ CompatVerdict
    \/ SaveCompatibilityReport

Spec == Init /\ [][Next]_vars

\* ------------------------------------------ the engine candidate walk alone
InitManifest ==
    /\ mods = <<>>
    /\ InitSearchVars
    /\ InitValVars
    /\ InitRegVars
    /\ InitMainVars
    /\ InitBldVars
    /\ InitClientVars
    /\ InitWalkVars
    /\ InitCmpVars
    /\ InitResVars
    /\ InitDlVars

\* a manifest arrives
LoadManifest ==
    /\ pc = "start"
    /\ \E s \in SeqsUpTo(VersionEntries, MaxWalk) : versions' = s
    /\ pc' = "walk"
    /\ UNCHANGED <<mods, valVars, regVars, mainVars, bldVars, cmpVars, resVars, dlVars, engineVars, loaderVars, modVars, endVars, report,
                   loaderCalls, compatCalls, modQueried, clientVars,
                   walk_newer, current_found>>

\* lines 87-97 and 321-331: the walk over the manifest entries
CollectNewer ==
    /\ pc = "walk"
    /\ walk_newer' = NewerReleases(versions)
    /\ current_found' = (\E i \in 1..Len(versions) : versions[i].id = mc_version)
    /\ pc' = "walk_done"
    /\ UNCHANGED <<mods, valVars, regVars, mainVars, bldVars, cmpVars, resVars, dlVars, engineVars, loaderVars, modVars, endVars, report,
                   loaderCalls, compatCalls, modQueried, clientVars, versions>>

NextManifest == LoadManifest \/ CollectNewer

SpecManifest == InitManifest /\ [][NextManifest]_vars

\* ------------------------------------------------ the registry client alone
InitClient ==
    /\ mods = <<>>
    /\ InitSearchVars
    /\ InitValVars
    /\ InitRegVars
    /\ InitMainVars
    /\ InitBldVars
    /\ InitClientVars
    /\ InitWalkVars
    /\ InitCmpVars
    /\ InitResVars
    /\ InitDlVars

\* one call of _fetch_json on an exchange with the loader registry
FetchJsonCall ==
    /\ pc = "start"
    /\ \E resp \in Responses(LoaderBodies) :
        /\ last_json' = FetchJson(resp)
        /\ fetched' = IF resp.kind = "ok" THEN fetched
                      ELSE fetched \cup {<<resp.kind, FetchJson(resp)>>}
    /\ UNCHANGED <<mods, valVars, regVars, mainVars, bldVars, cmpVars, resVars, dlVars, pc, engineVars, loaderVars, modVars, endVars, report,
                   loaderCalls, compatCalls, modQueried, walkVars>>

NextClient == FetchJsonCall

SpecClient == InitClient /\ [][NextClient]_vars

\* ------------------------------------------------------ version comparator
\* version strings are sequences of characters; "sup2" is a character that
\* str.isdigit() accepts and int() rejects (a superscript digit)
DecDigits == <<"0", "1", "2", "3", "4", "5", "6", "7", "8", "9">>
IsDecDigit(c) == \E d \in 1..10 : DecDigits[d] = c
DigitValue(c) == (CHOOSE d \in 1..10 : DecDigits[d] = c) - 1

\* the code point of a character: the order Python compares strings by
Code(c) ==
    IF IsDecDigit(c) THEN 48 + DigitValue(c)
    ELSE CASE c = "+" -> 43
           [] c = "-" -> 45
           [] c = "." -> 46
           [] c = "a" -> 97
           [] c = "b" -> 98
           [] c = "v" -> 118
           [] c = "sup2" -> 178

\* s.split(c)[0]: what precedes the first occurrence of c
SplitFirst(s, c) ==
    IF \E i \in 1..Len(s) : s[i] = c
    THEN SubSeq(s, 1, (CHOOSE i \in 1..Len(s) :
                          s[i] = c /\ \A j \in 1..(i - 1) : s[j] # c) - 1)
    ELSE s

\* s.split(c): the pieces between the occurrences of c
RECURSIVE SplitOn(_, _)
SplitOn(s, c) ==
    IF \E i \in 1..Len(s) : s[i] = c
    THEN <<SplitFirst(s, c)>>
         \o SplitOn(SubSeq(s, Len(SplitFirst(s, c)) + 2, Len(s)), c)
    ELSE <<s>>

\* s.replace(c, ''): every occurrence of c is removed
RECURSIVE RemoveFrom(_, _, _)
RemoveFrom(s, c, i) ==
    IF i > Len(s) THEN <<>>
    ELSE IF s[i] = c THEN RemoveFrom(s, c, i + 1)
    ELSE <<s[i]>> \o RemoveFrom(s, c, i + 1)
RemoveAll(s, c) == RemoveFrom(s, c, 1)

\* v.split('+')[0].split('-')[0]; variant: only build metadata is cut off
CleanVersion_KeepPreRelease(v) == SplitFirst(v, "+")
CleanVersion(v) == SplitFirst(SplitFirst(v, "+"), "-")

\* v_clean.replace('v', '').split('.')
Segments(v_clean) == SplitOn(RemoveAll(v_clean, "v"), ".")

\* x.isdigit(): not empty and every character is a digit character
IsDigit(x) ==
    /\ Len(x) > 0
    /\ \A i \in 1..Len(x) : IsDecDigit(x[i]) \/ x[i] = "sup2"

\* int(x) raises ValueError on a digit character that is not a decimal digit
IntRaises(x) == \E i \in 1..Len(x) : ~IsDecDigit(x[i])

RECURSIVE IntOf(_)
IntOf(x) ==
    IF Len(x) = 0 THEN 0
    ELSE 10 * IntOf(SubSeq(x, 1, Len(x) - 1)) + DigitValue(x[Len(x)])

\* str(n) of a non-negative int
RECURSIVE IntToStr(_)
IntToStr(n) ==
    IF n < 10 THEN <<DecDigits[n + 1]>>
    ELSE Append(IntToStr(n \div 10), DecDigits[(n % 10) + 1])

\* a part of a version: an int, or the segment itself
IntPart(n) == [isInt |-> TRUE, n |-> n]
StrPart(x) == [isInt |-> FALSE, s |-> x]

\* int(x) if x.isdigit() else x, for every segment
Parts(v_clean) ==
    LET segs == Segments(v_clean) IN
    [i \in 1..Len(segs) |->
        IF IsDigit(segs[i]) THEN IntPart(IntOf(segs[i])) ELSE StrPart(segs[i])]

\* building the parts raises
PartsRaise(v_clean) ==
    LET segs == Segments(v_clean) IN
    \E i \in 1..Len(segs) : IsDigit(segs[i]) /\ IntRaises(segs[i])

StrOf(p) == IF p.isInt THEN IntToStr(p.n) ELSE p.s

\* a > b / a < b on strings: 1, -1, or 0 when equal
RECURSIVE StrCompare(_, _)
StrCompare(a, b) ==
    IF Len(a) = 0 /\ Len(b) = 0 THEN 0
    ELSE IF Len(a) = 0 THEN -1
    ELSE IF Len(b) = 0 THEN 1
    ELSE IF Code(a[1]) > Code(b[1]) THEN 1
    ELSE IF Code(a[1]) < Code(b[1]) THEN -1
    ELSE StrCompare(Tail(a), Tail(b))

\* lines 234-244: one step of the loop; 0 when the step does not decide.
\* variant: every pair of parts is compared as strings
CompareParts_AsStrings(p1, p2) == StrCompare(StrOf(p1), StrOf(p2))
CompareParts(p1, p2) ==
    IF p1.isInt /\ p2.isInt
    THEN IF p1.n > p2.n THEN 1 ELSE IF p1.n < p2.n THEN -1 ELSE 0
    ELSE StrCompare(StrOf(p1), StrOf(p2))

\* range(max(len(parts1), len(parts2))); variant: the first list alone
LoopLength_First(parts1, parts2) == Len(parts1)
LoopLength(parts1, parts2) ==
    IF Len(parts1) >= Len(parts2) THEN Len(parts1) ELSE Len(parts2)

\* parts[i] if i < len(parts) else 0
PartAt(parts, i) == IF i <= Len(parts) THEN parts[i] ELSE IntPart(0)

\* lines 230-246: the loop over the positions
RECURSIVE CompareFrom(_, _, _)
CompareFrom(parts1, parts2, i) ==
    IF i > LoopLength(parts1, parts2) THEN 0
    ELSE LET c == CompareParts(PartAt(parts1, i), PartAt(parts2, i)) IN
         IF c # 0 THEN c ELSE CompareFrom(parts1, parts2, i + 1)

\* _compare_versions: the loop, or the raw string order when the parse raised
CompareVersions(a, b) ==
    LET v1_clean == CleanVersion(a)
        v2_clean == CleanVersion(b) IN
    IF PartsRaise(v1_clean) \/ PartsRaise(v2_clean)
    THEN StrCompare(a, b)
    ELSE CompareFrom(Parts(v1_clean), Parts(v2_clean), 1)

\* ------------------------------------------------ the comparator alone
\* the version strings compared: segments joined by dots
RECURSIVE JoinDots(_)
JoinDots(segs) ==
    IF Len(segs) = 0 THEN <<>>
    ELSE IF Len(segs) = 1 THEN segs[1]
    ELSE segs[1] \o <<".">> \o JoinDots(Tail(segs))

CmpSegments == {<<"0">>, <<"9">>, <<"1", "0">>, <<"1", "a">>, <<"v", "1">>,
                <<"sup2">>}
NumSegments == {<<"0">>, <<"1">>, <<"2">>, <<"9">>, <<"1", "0">>}

VersionsOf(S, n) == {JoinDots(segs) : segs \in UNION {[1..k -> S] : k \in 1..n}}

\* all-numeric versions of major version 1 with up to n segments
NumericVersions(n) ==
    {JoinDots(<<(<<"1">>)>> \o segs) :
        segs \in UNION {[1..k -> NumSegments] : k \in 0..(n - 1)}}

InitCompare ==
    /\ mods = <<>>
    /\ InitSearchVars
    /\ InitValVars
    /\ InitRegVars
    /\ InitMainVars
    /\ InitBldVars
    /\ InitClientVars
    /\ InitWalkVars
    /\ v1 \in VersionsOf(CmpSegments, MaxSegs)
    /\ v2 \in VersionsOf(CmpSegments, MaxSegs)
    /\ v3 = <<>>
    /\ result = EmptyDict
    /\ InitResVars
    /\ InitDlVars

\* _compare_versions on the pair, both ways round, and on v1 with itself
ComparePair ==
    /\ pc = "start"
    /\ pc' = "compared"
    /\ result' = [ab |-> CompareVersions(v1, v2),
                  ba |-> CompareVersions(v2, v1),
                  aa |-> CompareVersions(v1, v1)]
    /\ UNCHANGED <<mods, valVars, regVars, mainVars, bldVars, engineVars, loaderVars, modVars, endVars, report,
                   loaderCalls, compatCalls, modQueried, clientVars, walkVars,
                   v1, v2, v3, resVars, dlVars>>

\* _compare_versions on v1 with the suffix v2 behind '-' and behind '+',
\* against v1
CompareSuffixed ==
    /\ pc = "start"
    /\ pc' = "suffixed"
    /\ result' = [dash |-> CompareVersions(v1 \o <<"-">> \o v2, v1),
                  plus |-> CompareVersions(v1 \o <<"+">> \o v2, v1)]
    /\ UNCHANGED <<mods, valVars, regVars, mainVars, bldVars, engineVars, loaderVars, modVars, endVars, report,
                   loaderCalls, compatCalls, modQueried, clientVars, walkVars,
                   v1, v2, v3, resVars, dlVars>>

NextCompare == ComparePair \/ CompareSuffixed

SpecCompare == InitCompare /\ [][NextCompare]_vars

\* three version strings of one sample
InitCompare3 ==
    /\ mods = <<>>
    /\ InitSearchVars
    /\ InitValVars
    /\ InitRegVars
    /\ InitMainVars
    /\ InitBldVars
    /\ InitClientVars
    /\ InitWalkVars
    /\ v1 \in VersionsOf(CmpSegments, MaxSegs3)
    /\ v2 \in VersionsOf(CmpSegments, MaxSegs3)
    /\ v3 \in VersionsOf(CmpSegments, MaxSegs3)
    /\ result = EmptyDict
    /\ InitResVars
    /\ InitDlVars

\* _compare_versions on the three pairs of the sample
CompareTriple ==
    /\ pc = "start"
    /\ pc' = "compared3"
    /\ result' = [ab |-> CompareVersions(v1, v2),
                  bc |-> CompareVersions(v2, v3),
                  ac |-> CompareVersions(v1, v3)]
    /\ UNCHANGED <<mods, valVars, regVars, mainVars, bldVars, engineVars, loaderVars, modVars, endVars, report,
                   loaderCalls, compatCalls, modQueried, clientVars, walkVars,
                   v1, v2, v3, resVars, dlVars>>

NextCompare3 == CompareTriple

SpecCompare3 == InitCompare3 /\ [][NextCompare3]_vars

\* two version strings with numeric segments only
InitCompareNumeric ==
    /\ mods = <<>>
    /\ InitSearchVars
    /\ InitValVars
    /\ InitRegVars
    /\ InitMainVars
    /\ InitBldVars
    /\ InitClientVars
    /\ InitWalkVars
    /\ v1 \in NumericVersions(MaxNumSegs)
    /\ v2 \in NumericVersions(MaxNumSegs)
    /\ v3 = <<>>
    /\ result = EmptyDict
    /\ InitResVars
    /\ InitDlVars

NextCompareNumeric == ComparePair

SpecCompareNumeric == InitCompareNumeric /\ [][NextCompareNumeric]_vars

\* --------------------------------------------- the mod resolution alone
\* version entries of the primary mod registry: version_number, loaders,
\* game_versions and files (urls, or NoUrl for a file without 'url')
ResolveEntries ==
    [version_number : {"V1", "V2", NoneStr},
     loaders : {{"fabric"}, {"forge"}},
     game_versions : {{mc_version}, {"E9"}},
     hasFiles : {TRUE},
     files : {<<>>, <<"U1", "U2">>, <<NoUrl>>}]
ResolvePayloads == SeqsUpTo(ResolveEntries, MaxCandidates)

\* the version the config pins for the mod
PinnedVersion == "V1"

\* project info: client_side and server_side, each possibly missing
SideValues == {"required", "optional", "unsupported", NoneStr}
ProjectInfos == [client_side : SideValues, server_side : SideValues]

\* dict.get(key, 'required')
SideOr(v) == IF v = NoneStr THEN "required" ELSE v

\* validate_config.py lines 298-308 and 442-452: the environment of a
\* project; variant: a project one side does not support goes to that side
Environment_Swapped(info) ==
    IF info.isNone THEN "both"
    ELSE LET client_side == SideOr(info.body.client_side)
             server_side == SideOr(info.body.server_side) IN
         IF client_side \in {"required", "optional"}
            /\ server_side \in {"required", "optional"} THEN "both"
         ELSE IF client_side \in {"required", "optional"}
                 /\ server_side = "unsupported" THEN "server"
         ELSE IF server_side \in {"required", "optional"}
                 /\ client_side = "unsupported" THEN "client"
         ELSE "both"
Environment(info) ==
    IF info.isNone THEN "both"
    ELSE LET client_side == SideOr(info.body.client_side)
             server_side == SideOr(info.body.server_side) IN
         IF client_side \in {"required", "optional"}
            /\ server_side \in {"required", "optional"} THEN "both"
         ELSE IF client_side \in {"required", "optional"}
                 /\ server_side = "unsupported" THEN "client"
         ELSE IF server_side \in {"required", "optional"}
                 /\ client_side = "unsupported" THEN "server"
         ELSE "both"

\* 'fabric' in loaders and self.minecraft_version in game_versions
ListsLoaderAndEngine(ver_info) ==
    "fabric" \in ver_info.loaders /\ mc_version \in ver_info.game_versions

\* project_mappings.get(mod_name, slug or mod_name)
ProjectIdOf(mapped, slug, mod_name) ==
    IF mapped # NoneStr THEN mapped
    ELSE IF slug # NoneStr THEN slug
    ELSE mod_name

\* f"{project_id}.jar"
JarName(pid) == <<pid, ".jar">>

\* validate_config.py lines 287-312: the first entry listing the loader and
\* the engine version; 0 when there is none
FirstListing(vs) ==
    IF \E i \in 1..Len(vs) : ListsLoaderAndEngine(vs[i])
    THEN CHOOSE i \in 1..Len(vs) :
            /\ ListsLoaderAndEngine(vs[i])
            /\ \A j \in 1..(i - 1) : ~ListsLoaderAndEngine(vs[j])
    ELSE 0

\* download.py lines 177-192: an entry the download resolver returns from
DownloadMatch(ver_info, version) ==
    /\ ver_info.version_number = version
    /\ ListsLoaderAndEngine(ver_info)
    /\ Len(ver_info.files) > 0
    /\ ver_info.files[1] # NoUrl

FirstDownloadMatch(vs, version) ==
    IF \E i \in 1..Len(vs) : DownloadMatch(vs[i], version)
    THEN CHOOSE i \in 1..Len(vs) :
            /\ DownloadMatch(vs[i], version)
            /\ \A j \in 1..(i - 1) : ~DownloadMatch(vs[j], version)
    ELSE 0

InitResolve ==
    /\ mods = <<>>
    /\ InitSearchVars
    /\ InitValVars
    /\ InitRegVars
    /\ InitMainVars
    /\ InitBldVars
    /\ InitClientVars
    /\ InitWalkVars
    /\ InitCmpVars
    /\ InitDlVars
    /\ mod_payload \in ResolvePayloads
    /\ pinned = PinnedVersion
    /\ resolution = None
    /\ project_info = None

\* check_updates.py lines 277-294: the versions for (mc_version, fabric) are
\* asked of the registry and the first entry is taken
CheckResolveMod ==
    /\ pc = "start"
    /\ \E kind \in HttpKinds :
        LET resp == IF kind = "ok" THEN [kind |-> "ok", body |-> mod_payload]
                    ELSE [kind |-> kind, body |-> <<>>]
            vs == GetModVersions(resp) IN
        IF Len(vs) = 0 \/ vs[1].version_number = NoneStr
        THEN /\ resolution' = None
             /\ pc' = "resolved"
        ELSE IF LatestUrl(vs[1]) = "IndexError"
        THEN /\ resolution' = None
             /\ pc' = "crashed"
        ELSE /\ resolution' = Some([site |-> "check_updates",
                                    index |-> 1,
                                    version |-> vs[1].version_number,
                                    url |-> LatestUrl(vs[1])])
             /\ pc' = "resolved"
    /\ UNCHANGED <<mods, valVars, regVars, mainVars, bldVars, engineVars, loaderVars, modVars, endVars, report,
                   loaderCalls, compatCalls, modQueried, clientVars, walkVars,
                   cmpVars, dlVars, mod_payload, pinned, project_info>>

\* validate_config.py lines 282-312: what _find_latest_modrinth_version
\* returns when the version query went as kind and the project info query
\* delivered info
FindLatest(kind, info) ==
    LET versions_json == IF kind = "ok" THEN Some(mod_payload) ELSE None
        k == IF versions_json.isNone THEN 0 ELSE FirstListing(mod_payload) IN
    IF k = 0 THEN None
    ELSE Some([site |-> "validate_config",
               index |-> k,
               version |-> mod_payload[k].version_number,
               environment |-> Environment(FetchJson(info))])

\* _find_latest_modrinth_version called on its own
FindLatestModrinthVersion ==
    /\ pc = "start"
    /\ \E kind \in HttpKinds, info \in Responses(ProjectInfos) :
        /\ resolution' = FindLatest(kind, info)
        /\ project_info' = IF FindLatest(kind, info).isNone THEN None
                           ELSE FetchJson(info)
    /\ pc' = "resolved"
    /\ UNCHANGED <<mods, valVars, regVars, mainVars, bldVars, engineVars, loaderVars, modVars, endVars, report,
                   loaderCalls, compatCalls, modQueried, clientVars, walkVars,
                   cmpVars, dlVars, mod_payload, pinned>>

\* validate_config.py lines 459-480: the loop of _validate_modrinth_mod over
\* the entries with the version of the config; the flags are kept from one
\* entry to the next
LoaderSeen(vs, version, i) ==
    \E j \in 1..i : vs[j].version_number = version /\ "fabric" \in vs[j].loaders
EngineSeen(vs, version, i) ==
    \E j \in 1..i :
        vs[j].version_number = version /\ mc_version \in vs[j].game_versions
Accepted(vs, version) ==
    \E i \in 1..Len(vs) :
        /\ vs[i].version_number = version
        /\ LoaderSeen(vs, version, i)
        /\ EngineSeen(vs, version, i)

\* validate_config.py lines 418-480 and, without auto_fix, 482-546:
\* _validate_modrinth_mod for the version the config pins; has_env: the mod
\* of the config has an 'environment' key. With auto_fix a version that does
\* not fit is handed to _find_latest_modrinth_version
ValidateModrinthMod ==
    /\ pc = "start"
    /\ \E kind \in HttpKinds, info \in Responses(ProjectInfos),
          auto_fix \in BOOLEAN, has_env \in BOOLEAN :
        IF kind # "ok" \/ Len(mod_payload) = 0
        THEN /\ resolution' = Some([site |-> "validate_mod", ret |-> FALSE,
                                    errors |-> 1, environment |-> NoneStr,
                                    version |-> pinned, written |-> NoneStr])
             /\ project_info' = None
             /\ pc' = "resolved"
        ELSE LET environment == Environment(FetchJson(info)) IN
             IF Accepted(mod_payload, pinned)
             THEN /\ resolution' =
                        Some([site |-> "validate_mod", ret |-> TRUE,
                              errors |-> 0, environment |-> environment,
                              version |-> pinned,
                              written |-> IF has_env THEN NoneStr
                                          ELSE environment])
                  /\ project_info' = FetchJson(info)
                  /\ pc' = "resolved"
             ELSE IF auto_fix
             THEN /\ resolution' = None
                  /\ project_info' = None
                  /\ pc' = "auto_fix"
             ELSE /\ resolution' =
                        Some([site |-> "validate_mod", ret |-> FALSE,
                              errors |-> 1, environment |-> environment,
                              version |-> pinned, written |-> NoneStr])
                  /\ project_info' = FetchJson(info)
                  /\ pc' = "resolved"
    /\ UNCHANGED <<mods, valVars, regVars, mainVars, bldVars, engineVars, loaderVars, modVars, endVars, report,
                   loaderCalls, compatCalls, modQueried, clientVars, walkVars,
                   cmpVars, dlVars, mod_payload, pinned>>

\* validate_config.py lines 486-501, 509-522 and 530-543: with auto_fix the
\* version and the environment of the config become what
\* _find_latest_modrinth_version returns from queries of its own
AutoFixModrinth ==
    /\ pc = "auto_fix"
    /\ \E kind \in HttpKinds, info \in Responses(ProjectInfos) :
        LET found == FindLatest(kind, info) IN
        IF ~found.isNone
        THEN /\ resolution' =
                   Some([site |-> "validate_mod", ret |-> TRUE, errors |-> 0,
                         environment |-> found.body.environment,
                         version |-> found.body.version,
                         written |-> found.body.environment])
             /\ project_info' = FetchJson(info)
        ELSE /\ resolution' =
                   Some([site |-> "validate_mod", ret |-> FALSE, errors |-> 1,
                         environment |-> NoneStr, version |-> pinned,
                         written |-> NoneStr])
             /\ project_info' = None
    /\ pc' = "resolved"
    /\ UNCHANGED <<mods, valVars, regVars, mainVars, bldVars, engineVars, loaderVars, modVars, endVars, report,
                   loaderCalls, compatCalls, modQueried, clientVars, walkVars,
                   cmpVars, dlVars, mod_payload, pinned>>

\* download.py lines 155-194: _resolve_modrinth_url for the pinned version
ResolveModrinthUrl ==
    /\ pc = "start"
    /\ \E kind \in HttpKinds, mapped \in {NoneStr, "p1"}, slug \in {NoneStr, "s1"} :
        LET versions_json == IF kind = "ok" THEN Some(mod_payload) ELSE None
            pid == ProjectIdOf(mapped, slug, "M1")
            k == IF versions_json.isNone THEN 0
                 ELSE FirstDownloadMatch(mod_payload, pinned) IN
        IF k = 0
        THEN resolution' = None
        ELSE resolution' = Some([site |-> "download",
                                 index |-> k,
                                 version |-> mod_payload[k].version_number,
                                 url |-> mod_payload[k].files[1],
                                 filename |-> JarName(pid),
                                 project_id |-> pid])
    /\ pc' = "resolved"
    /\ UNCHANGED <<mods, valVars, regVars, mainVars, bldVars, engineVars, loaderVars, modVars, endVars, report,
                   loaderCalls, compatCalls, modQueried, clientVars, walkVars,
                   cmpVars, dlVars, mod_payload, pinned, project_info>>

NextResolve == CheckResolveMod \/ FindLatestModrinthVersion \/ ResolveModrinthUrl

SpecResolve == InitResolve /\ [][NextResolve]_vars

\* --------------------------------------- the mod validation of a config
InitValidateMod ==
    /\ mods = <<>>
    /\ InitSearchVars
    /\ InitValVars
    /\ InitRegVars
    /\ InitMainVars
    /\ InitBldVars
    /\ InitClientVars
    /\ InitWalkVars
    /\ InitCmpVars
    /\ InitDlVars
    /\ mod_payload \in SeqsUpTo(ResolveEntries, MaxListed)
    /\ pinned = PinnedVersion
    /\ resolution = None
    /\ project_info = None

NextValidateMod ==
    \/ FindLatestModrinthVersion
    \/ ValidateModrinthMod
    \/ AutoFixModrinth

SpecValidateMod == InitValidateMod /\ [][NextValidateMod]_vars

\* ---------------------------------------------------------- downloads
\* source_mappings: the target directory of a source and the file names
TargetDir(source) ==
    IF source \in {"mojang", "fabric"} THEN <<"server">> ELSE <<"mods">>
EngineFile == "server.jar"
LoaderFile == "fabric-launcher.jar"
ModFile == "M1.jar"

\* the file name a mod resolves to: the name of the mod and ".jar"
ModFileOf(name) ==
    CASE name = "M1" -> ModFile
      [] name = "M2" -> "M2.jar"
      [] OTHER -> "M3.jar"

\* os.path.join(dir, name)
PathJoin(dir, name) == Append(dir, name)

EnginePath == PathJoin(TargetDir("mojang"), EngineFile)
LoaderPath == PathJoin(TargetDir("fabric"), LoaderFile)
ModServerPath == PathJoin(TargetDir("modrinth"), ModFile)
ModClientPath == PathJoin(PathJoin(TargetDir("modrinth"), "client"), ModFile)
Paths == {EnginePath, LoaderPath, ModServerPath, ModClientPath}

\* build_download_list lines 364-370: the destinations of a mod;
\* variant: the client path comes first
DestinationsFor_ClientFirst(environment, base_target_dir, filename) ==
    (IF environment \in {"client", "both"}
     THEN <<PathJoin(PathJoin(base_target_dir, "client"), filename)>> ELSE <<>>)
    \o (IF environment \in {"server", "both"}
        THEN <<PathJoin(base_target_dir, filename)>> ELSE <<>>)
DestinationsFor(environment, base_target_dir, filename) ==
    (IF environment \in {"server", "both"}
     THEN <<PathJoin(base_target_dir, filename)>> ELSE <<>>)
    \o (IF environment \in {"client", "both"}
        THEN <<PathJoin(PathJoin(base_target_dir, "client"), filename)>> ELSE <<>>)

\* the plan items: lines 283-291, 308-316 and 372-382
SingleItem(type, name, destination) ==
    [type |-> type, name |-> name, destination |-> destination,
     hasDestinations |-> FALSE, destinations |-> <<>>,
     environment |-> NoneStr, slug |-> NoneStr]
ModItem(name, environment, destinations, slug) ==
    [type |-> "mod", name |-> name, destination |-> NoneStr,
     hasDestinations |-> TRUE, destinations |-> destinations,
     environment |-> environment, slug |-> slug]

\* a mod of the config: name, version, source, environment, project_id and
\* download_url, each but the name NoneStr when the key is absent; project_id
\* is read for the secondary registry alone and download_url for a custom
\* source alone
ModSources == {"modrinth", "curseforge", "custom"}
Environments == {"both", "client", "server", "other", NoneStr}
ModConfigs ==
    {m \in [name : {"M1"}, version : {"V1", NoneStr}, source : ModSources,
            environment : Environments, project_id : {"cf1", NoneStr},
            download_url : {"U1", NoneStr}] :
        /\ m.source # "curseforge" => m.project_id = NoneStr
        /\ m.source # "custom" => m.download_url = NoneStr}

\* the mods of one config have the names M1, M2, ... in the list's order
ModNameAt(i) == CASE i = 1 -> "M1" [] i = 2 -> "M2" [] OTHER -> "M3"
\* the mods behind the first one of a list: with a version, for both sides
CompanionMods ==
    {m \in ModConfigs : m.version = "V1" /\ m.environment = "both"}
NamedModLists(n) ==
    UNION {{[i \in 1..k |-> [ms[i] EXCEPT !.name = ModNameAt(i)]] :
                ms \in {l \in [1..k -> ModConfigs] :
                            \A i \in 2..k : l[i] \in CompanionMods}} :
           k \in 0..n}

\* not self.curseforge_api_key: the variable is unset or empty
KeyValues == {NoneStr, "", "K"}
KeyMissing(key) == key \in {NoneStr, ""}

\* _resolve_curseforge_url lines 215-217: without a key the result is None
\* and no request is made; variant: the key is not looked at
CurseforgeResolves_NoKeyCheck(key, answered) == answered
CurseforgeResolves(key, answered) == IF KeyMissing(key) THEN FALSE ELSE answered
CurseforgeCalls(key) == IF KeyMissing(key) THEN <<>> ELSE <<"curseforge">>

\* mod.get('environment', 'both')
EnvironmentOf(mod) ==
    IF mod.environment = NoneStr THEN "both" ELSE mod.environment

\* lines 344-362: the slug kept with a resolved mod; "unresolved" when the
\* mod gets no plan item
ResolvedSlug(mod, resolved, key) ==
    IF mod.version = NoneStr THEN "unresolved"
    ELSE IF mod.source = "curseforge" /\ mod.project_id = NoneStr THEN "unresolved"
    ELSE IF mod.source = "curseforge" /\ ~CurseforgeResolves(key, resolved)
         THEN "unresolved"
    ELSE IF mod.source = "curseforge" THEN "cf_cf1"
    ELSE IF mod.source = "modrinth" /\ ~resolved THEN "unresolved"
    ELSE IF mod.source = "modrinth" THEN mod.name
    ELSE IF mod.download_url = NoneStr THEN "unresolved"
    ELSE NoneStr

\* the registry requests made for one mod: lines 337-362
CallsFor(mod, key) ==
    IF mod.version = NoneStr THEN <<>>
    ELSE IF mod.source = "modrinth" THEN <<"modrinth">>
    ELSE IF mod.source = "curseforge" /\ mod.project_id # NoneStr
         THEN CurseforgeCalls(key)
    ELSE <<>>

\* the registry requests of build_download_list, each with the name of the
\* item it is made for: the engine manifest, then the mods in order
RECURSIVE ModCalls(_, _, _)
ModCalls(mods_config, mod_ok, key) ==
    IF Len(mods_config) = 0 THEN <<>>
    ELSE LET mod == mods_config[1]
             calls == CallsFor(mod, key) IN
         [i \in 1..Len(calls) |->
            [registry |-> calls[i], for |-> mod.name, ok |-> mod_ok]]
         \o ModCalls(Tail(mods_config), mod_ok, key)
BuildCalls(mods_config, mc_ok, mod_ok, key) ==
    <<[registry |-> "mojang", for |-> "Minecraft Server", ok |-> mc_ok]>>
    \o ModCalls(mods_config, mod_ok, key)

\* build_download_list: the plan for a config with the mods given, when the
\* engine url resolves (mc_ok) and the mod urls resolve (mod_ok)
RECURSIVE ModItems(_, _, _)
ModItems(mods_config, mod_ok, key) ==
    IF Len(mods_config) = 0 THEN <<>>
    ELSE LET mod == mods_config[1]
             slug == ResolvedSlug(mod, mod_ok, key) IN
         (IF slug = "unresolved" THEN <<>>
          ELSE <<ModItem(mod.name, EnvironmentOf(mod),
                         DestinationsFor(EnvironmentOf(mod),
                                         TargetDir(mod.source),
                                         ModFileOf(mod.name)),
                         slug)>>)
         \o ModItems(Tail(mods_config), mod_ok, key)

BuildDownloadList(mods_config, mc_ok, mod_ok, key) ==
    (IF mc_ok THEN <<SingleItem("minecraft", "Minecraft Server", EnginePath)>>
     ELSE <<>>)
    \o <<SingleItem("fabric", "Fabric Loader", LoaderPath)>>
    \o ModItems(mods_config, mod_ok, key)

\* os.path.exists
Exists(files, path) == files[path] # "absent"

\* download_all lines 454-459: an item whose destination exists is skipped;
\* variant: nothing is skipped
AlreadyThere_Never(files, destination) == FALSE
AlreadyThere(files, destination) == Exists(files, destination)

\* _download_file: the files afterwards. "ok": the transfer completes;
\* "refused": the request fails before the file is opened; "cut": the
\* transfer fails after the file was opened. After a failure the destination
\* is removed when it exists. variant: the file is left as the failure left it
DownloadFile_NoCleanup(files, destination, how) ==
    IF how = "ok" THEN [files EXCEPT ![destination] = "new"]
    ELSE IF how = "cut" THEN [files EXCEPT ![destination] = "partial"]
    ELSE files
DownloadFile(files, destination, how) ==
    IF how = "ok" THEN [files EXCEPT ![destination] = "new"]
    ELSE LET failed == IF how = "cut"
                       THEN [files EXCEPT ![destination] = "partial"]
                       ELSE files IN
         IF Exists(failed, destination)
         THEN [failed EXCEPT ![destination] = "absent"]
         ELSE failed

DownloadOutcomes == {"ok", "refused", "cut"}

\* shutil.copy2 inside try/except: the copy arrives, or fails before or
\* after the target was opened
CopyOutcomes == {"ok", "refused", "cut"}
CopyFile(files, src, dest, how) ==
    IF how = "ok" THEN [files EXCEPT ![dest] = files[src]]
    ELSE IF how = "cut" THEN [files EXCEPT ![dest] = "partial"]
    ELSE files

\* lines 421-429: the old versions are removed; a removal may fail
RECURSIVE RemoveOld(_, _, _)
RemoveOld(files, destinations, removal_ok) ==
    IF Len(destinations) = 0 THEN files
    ELSE RemoveOld(IF Exists(files, destinations[1]) /\ removal_ok
                   THEN [files EXCEPT ![destinations[1]] = "absent"]
                   ELSE files,
                   Tail(destinations), removal_ok)

RECURSIVE CopyAll(_, _, _, _)
CopyAll(files, src, destinations, how) ==
    IF Len(destinations) = 0 THEN files
    ELSE CopyAll(CopyFile(files, src, destinations[1], how), src,
                 Tail(destinations), how)

\* the cache document
CacheDoc(version, downloads) ==
    Some([minecraft_version |-> version, downloads |-> downloads])

\* download_from_cache line 496: the warning; variant: never warned
StaleWarning_Never(cached_mc_version) == FALSE
StaleWarning(cached_mc_version) == cached_mc_version # mc_version

\* download_from_cache lines 486 and 500: the plan replayed;
\* variant: a stale cache is not replayed
ReplayList_FreshOnly(doc) ==
    IF doc.minecraft_version # mc_version THEN <<>> ELSE doc.downloads
ReplayList(doc) == doc.downloads

\* the mod lists of a config: none or one mod
BuildModLists == NamedModLists(MaxBuildMods)
DlModLists ==
    {<<>>}
    \cup {<<[name |-> "M1", version |-> "V1", source |-> src,
             environment |-> env, project_id |-> NoneStr,
             download_url |-> IF src = "custom" THEN "U1" ELSE NoneStr]>> :
            src \in {"modrinth", "custom"}, env \in {"both", "client", "other"}}

\* the plans a cache file holds: plans a completed download_all has saved
CachedModLists ==
    {<<>>}
    \cup {<<[name |-> "M1", version |-> "V1", source |-> "modrinth",
             environment |-> env, project_id |-> NoneStr,
             download_url |-> NoneStr]>> :
            env \in {"both", "server"}}
CachedPlans ==
    {BuildDownloadList(ms, TRUE, TRUE, NoneStr) : ms \in CachedModLists}
CacheDocs ==
    {None} \cup {CacheDoc(v, plan) : v \in {"E0", "E1"}, plan \in CachedPlans}

\* ------------------------------------------- build_download_list alone
InitBuild ==
    /\ mods \in BuildModLists
    /\ InitSearchVars
    /\ InitValVars
    /\ InitRegVars
    /\ InitMainVars
    /\ curseforge_api_key \in KeyValues
    /\ registry_calls = <<>>
    /\ InitClientVars
    /\ InitWalkVars
    /\ InitCmpVars
    /\ InitResVars
    /\ InitDlVars

\* build_download_list: the registries asked resolve the urls or do not
BuildList ==
    /\ pc = "start"
    /\ \E mc_ok \in BOOLEAN, mod_ok \in BOOLEAN :
        /\ download_list' = BuildDownloadList(mods, mc_ok, mod_ok,
                                              curseforge_api_key)
        /\ registry_calls' = BuildCalls(mods, mc_ok, mod_ok,
                                        curseforge_api_key)
    /\ pc' = "built"
    /\ UNCHANGED <<mods, valVars, regVars, mainVars, curseforge_api_key, engineVars, loaderVars, modVars, endVars, report,
                   loaderCalls, compatCalls, modQueried, clientVars, walkVars,
                   cmpVars, resVars, fs, cache_file, cache, dl_i,
                   success_count, fail_count, stale_warned, mode, itemLog,
                   dlLog, replayed>>

NextBuild == BuildList

SpecBuild == InitBuild /\ [][NextBuild]_vars

\* ------------------------------------------------------- download.py main
InitDownload ==
    /\ mods \in DlModLists
    /\ InitSearchVars
    /\ InitValVars
    /\ InitRegVars
    /\ InitMainVars
    /\ InitBldVars
    /\ InitClientVars
    /\ InitWalkVars
    /\ InitCmpVars
    /\ InitResVars
    /\ fs \in [Paths -> {"absent", "old"}]
    /\ cache_file \in CacheDocs
    /\ cache = cache_file
    /\ download_list = <<>>
    /\ dl_i = 0
    /\ success_count = 0
    /\ fail_count = 0
    /\ stale_warned = FALSE
    /\ mode = "none"
    /\ itemLog = <<>>
    /\ dlLog = <<>>
    /\ replayed = None

\* download_all lines 398-409: the loop is entered unless the plan is empty
EnterLoop(plan) ==
    /\ download_list' = plan
    /\ IF Len(plan) = 0
       THEN pc' = "done" /\ dl_i' = 0
       ELSE pc' = "downloading" /\ dl_i' = 1

\* main lines 546-548, and download_from_cache lines 481-484 without a
\* cache: download_all builds the plan
MainRebuild ==
    /\ pc = "start"
    /\ \E rebuild_cache \in BOOLEAN, mc_ok \in BOOLEAN, mod_ok \in BOOLEAN :
        /\ rebuild_cache \/ cache.isNone
        /\ EnterLoop(BuildDownloadList(mods, mc_ok, mod_ok,
                                        curseforge_api_key))
        /\ registry_calls' = BuildCalls(mods, mc_ok, mod_ok,
                                        curseforge_api_key)
    /\ mode' = "rebuild"
    /\ UNCHANGED <<mods, valVars, regVars, mainVars, curseforge_api_key, engineVars, loaderVars, modVars, endVars, report,
                   loaderCalls, compatCalls, modQueried, clientVars, walkVars,
                   cmpVars, resVars, fs, cache_file, cache, success_count,
                   fail_count, stale_warned, itemLog, dlLog, replayed>>

\* main lines 549-551 and download_from_cache lines 486-500: the cached plan
\* is replayed, with a warning when the engine versions differ
MainFromCache ==
    /\ pc = "start"
    /\ ~cache.isNone
    /\ stale_warned' = StaleWarning(cache.body.minecraft_version)
    /\ EnterLoop(ReplayList(cache.body))
    /\ mode' = "cache"
    /\ replayed' = cache
    /\ UNCHANGED <<mods, valVars, regVars, mainVars, bldVars, engineVars, loaderVars, modVars, endVars, report,
                   loaderCalls, compatCalls, modQueried, clientVars, walkVars,
                   cmpVars, resVars, fs, cache_file, cache, success_count,
                   fail_count, itemLog, dlLog>>

\* the position after item dl_i
AfterItem ==
    /\ dl_i' = dl_i + 1
    /\ pc' = IF dl_i + 1 > Len(download_list) THEN "saving" ELSE "downloading"

\* download_all lines 416-444: a mod item with destinations
DownloadModItem ==
    /\ pc = "downloading"
    /\ LET item == download_list[dl_i] IN
       /\ item.type = "mod" /\ item.hasDestinations
       /\ IF Len(item.destinations) = 0
          THEN \* destinations[0] raises IndexError
               /\ pc' = "crashed"
               /\ UNCHANGED <<fs, dl_i, success_count, fail_count, itemLog, dlLog>>
          ELSE \E removal_ok \in BOOLEAN, how \in DownloadOutcomes,
                  copied \in CopyOutcomes :
               LET first_dest == item.destinations[1]
                   cleared == IF item.slug # NoneStr
                              THEN RemoveOld(fs, item.destinations, removal_ok)
                              ELSE fs
                   loaded == DownloadFile(cleared, first_dest, how)
                   ok == how = "ok" IN
               /\ fs' = IF ok THEN CopyAll(loaded, first_dest,
                                           Tail(item.destinations), copied)
                        ELSE loaded
               /\ dlLog' = Append(dlLog, [destination |-> first_dest, ok |-> ok,
                                          cut |-> how = "cut",
                                          after |-> loaded[first_dest]])
               /\ itemLog' = Append(itemLog,
                    [type |-> item.type,
                     existed |-> \E d \in 1..Len(item.destinations) :
                                    Exists(fs, item.destinations[d]),
                     issued |-> TRUE,
                     untouched |-> \A d \in 1..Len(item.destinations) :
                                    Exists(fs, item.destinations[d])
                                    => fs'[item.destinations[d]] = fs[item.destinations[d]],
                     counted |-> IF ok THEN "success" ELSE "fail"])
               /\ success_count' = IF ok THEN success_count + 1 ELSE success_count
               /\ fail_count' = IF ok THEN fail_count ELSE fail_count + 1
               /\ AfterItem
    /\ UNCHANGED <<mods, valVars, regVars, mainVars, bldVars, engineVars, loaderVars, modVars, endVars, report,
                   loaderCalls, compatCalls, modQueried, clientVars, walkVars,
                   cmpVars, resVars, cache_file, cache, download_list,
                   stale_warned, mode, replayed>>

\* download_all lines 446-466: an item with a single destination
DownloadSingleItem ==
    /\ pc = "downloading"
    /\ LET item == download_list[dl_i] IN
       /\ ~(item.type = "mod" /\ item.hasDestinations)
       /\ IF item.destination = NoneStr
          THEN /\ fail_count' = fail_count + 1
               /\ itemLog' = Append(itemLog,
                    [type |-> item.type, existed |-> FALSE, issued |-> FALSE,
                     untouched |-> TRUE, counted |-> "fail"])
               /\ UNCHANGED <<fs, success_count, dlLog>>
          ELSE IF AlreadyThere(fs, item.destination)
          THEN /\ success_count' = success_count + 1
               /\ itemLog' = Append(itemLog,
                    [type |-> item.type, existed |-> TRUE, issued |-> FALSE,
                     untouched |-> TRUE, counted |-> "success"])
               /\ UNCHANGED <<fs, fail_count, dlLog>>
          ELSE \E how \in DownloadOutcomes :
               LET ok == how = "ok" IN
               /\ fs' = DownloadFile(fs, item.destination, how)
               /\ dlLog' = Append(dlLog, [destination |-> item.destination,
                                          ok |-> ok, cut |-> how = "cut",
                                          after |-> fs'[item.destination]])
               /\ itemLog' = Append(itemLog,
                    [type |-> item.type,
                     existed |-> Exists(fs, item.destination),
                     issued |-> TRUE,
                     untouched |-> Exists(fs, item.destination)
                                   => fs'[item.destination] = fs[item.destination],
                     counted |-> IF ok THEN "success" ELSE "fail"])
               /\ success_count' = IF ok THEN success_count + 1 ELSE success_count
               /\ fail_count' = IF ok THEN fail_count ELSE fail_count + 1
       /\ AfterItem
    /\ UNCHANGED <<mods, valVars, regVars, mainVars, bldVars, engineVars, loaderVars, modVars, endVars, report,
                   loaderCalls, compatCalls, modQueried, clientVars, walkVars,
                   cmpVars, resVars, cache_file, cache, download_list,
                   stale_warned, mode, replayed>>

\* _save_cache: the document is written; or open() fails and the file is as
\* it was; or the write fails after open() truncated the file, and what is
\* left no longer loads as a cache (_load_cache lines 63-68)
SaveOutcomes == {"ok", "refused", "cut"}
SaveFile(file, doc, how) ==
    IF how = "ok" THEN doc
    ELSE IF how = "cut" THEN None
    ELSE file

\* download_all lines 468-473 and _save_cache: the plan becomes the cache,
\* with the live engine version; writing the file may fail
SaveCache ==
    /\ pc = "saving"
    /\ cache' = CacheDoc(mc_version, download_list)
    /\ \E how \in SaveOutcomes :
        cache_file' = SaveFile(cache_file, cache', how)
    /\ pc' = "done"
    /\ UNCHANGED <<mods, valVars, regVars, mainVars, bldVars, engineVars, loaderVars, modVars, endVars, report,
                   loaderCalls, compatCalls, modQueried, clientVars, walkVars,
                   cmpVars, resVars, fs, download_list, dl_i, success_count,
                   fail_count, stale_warned, mode, itemLog, dlLog, replayed>>

NextDownload ==
    \/ MainRebuild
    \/ MainFromCache
    \/ DownloadModItem
    \/ DownloadSingleItem
    \/ SaveCache

SpecDownload == InitDownload /\ [][NextDownload]_vars

\* the single control flow takes its next step
FairSpecDownload == SpecDownload /\ WF_vars(NextDownload)

TypeOK ==
    /\ pc \in {"start", "engine_loop", "mod_loop", "mod_versions", "returned",
               "saved", "crashed", "walk", "walk_done", "compared",
               "suffixed", "compared3", "resolved", "built", "downloading",
               "saving", "done", "auto_fix", "check_fabric", "check_mods",
               "upd_loop", "upd_versions", "save_updates", "exited",
               "v_minecraft", "v_fabric", "v_mods", "v_report", "validated"}
    /\ mc_i \in 0..MaxManifest
    /\ modQueried \subseteq 1..MaxManifest

\* ------------------------------------------------------------ properties

C2_UnresolvedAdvancesLoaderLoop ==
    /\ \A k \in 1..Len(compatCalls) :
        (Finished /\ compatCalls[k].missed /\ k < Len(fabricExpected))
        => Len(compatCalls) > k
    /\ (/\ Len(compatCalls) >= 2
        /\ compatCalls[1].missed
        /\ ~compatCalls[2].missed)
       => /\ Succeeded
          /\ ret.body.fabric_new = fabricExpected[2]
          /\ ret.body.mc_new = compatCalls[1].mc

C2_Witness ==
    /\ Succeeded
    /\ Len(compatCalls) = 2
    /\ compatCalls[1].missed
    /\ ret.body.fabric_new = fabric_versions[2]
    /\ \E i \in 1..Len(mods) : mods[i] # NoName

\* the pair a result carries is the pair of the last compatibility check,
\* every entry of its mods was resolved in that check, and no check with an
\* unresolved mod was accepted
ResultIsOfOnePair ==
    /\ Len(compatCalls) >= 1
    /\ compatCalls[Len(compatCalls)].mc = ret.body.mc_new
    /\ compatCalls[Len(compatCalls)].fabric = ret.body.fabric_new
    /\ \A n \in DOMAIN ret.body.mods :
        /\ n \in DOMAIN resolvedFor
        /\ resolvedFor[n] = <<ret.body.mc_new, ret.body.fabric_new>>
    /\ \A k \in 1..Len(compatCalls) : compatCalls[k].missed => ~compatCalls[k].ok

C4_NoNewerNoCalls ==
    (manifestAnswer = "some" /\ Len(newerExpected) = 0)
    => /\ Finished
       /\ ret.isNone
       /\ Len(loaderCalls) = 0
       /\ Len(compatCalls) = 0
       /\ modQueried = {}

C4_Witness ==
    /\ pc = "saved"
    /\ outcome = "no_newer"
    /\ manifestAnswer = "some"
    /\ ret.isNone

C6_FirstCompatibleInRegistryOrder ==
    Succeeded =>
        LET k == Len(compatCalls)
            e == Len(loaderCalls) IN
        /\ k >= 1
        /\ k <= Len(fabricExpected)
        /\ e >= 1
        /\ \A j \in 1..k :
            /\ compatCalls[j].fabric = fabricExpected[j]
            /\ compatCalls[j].i = loaderCalls[e].i
        /\ \A j \in 1..(k - 1) : ~compatCalls[j].ok
        /\ compatCalls[k].ok
        /\ ret.body.fabric_new = fabricExpected[k]
        /\ ret.body.mc_new = loaderCalls[e].mc

C6_Witness ==
    /\ pc = "saved"
    /\ Succeeded
    /\ fabricExpected = <<"L1", "L2">>
    /\ Len(compatCalls) = 2
    /\ ret.body.fabric_new = "L2"

ValueWhenNoNewer == None

\* C8 as stated: a failed run (manifest unavailable, loader fetch unavailable,
\* zero loader support, loader candidates exhausted) hands its caller a value,
\* and writes a report, different from those of a run with no newer version.
C8_FailureDistinctFromNoneFound ==
    (/\ Finished
     /\ \/ manifestAnswer = "unavailable"
        \/ outcome \in {"no_loader_support", "loaders_exhausted"})
    => /\ ret # ValueWhenNoNewer
       /\ pc = "saved" => report # Some(Report(ValueWhenNoNewer))

\* C9 as stated: the value _fetch_json returns for a 404 differs from the
\* value it returns for a timeout, a 5xx or a malformed payload.
C9_NotFoundDistinctFromUnavailable ==
    \A a \in fetched : \A b \in fetched :
        (a[1] = "404" /\ b[1] \in UnavailableKinds) => a[2] # b[2]

\* C10: the engine candidates are exactly the ids of the release entries in
\* front of the first entry naming the current version, in manifest order.
C10_CandidatesAreReleasesBeforeCurrent ==
    pc = "walk_done" =>
        /\ walk_newer = ReleasesBeforeCurrent(versions)
        /\ \A i \in 1..Len(walk_newer) : walk_newer[i] # mc_version

C10_Witness ==
    /\ pc = "walk_done"
    /\ Len(versions) = 4
    /\ versions[1].type = "snapshot"
    /\ versions[2].type = "release"
    /\ versions[3].id = mc_version
    /\ versions[4].type = "release"
    /\ versions[4].id # mc_version
    /\ walk_newer = <<versions[2].id>>

\* C11 as stated: on success mc_versions_tested is the number of engine
\* candidates a loader fetch was issued for, and fabric_versions_tested is the
\* number of loader candidates of the chosen engine candidate that
\* check_full_compatibility was run for, the chosen one included.
C11_TestedCountsAreAttempts ==
    Succeeded =>
        /\ ret.body.mc_versions_tested =
              Cardinality({loaderCalls[k].i : k \in 1..Len(loaderCalls)})
        /\ ret.body.fabric_versions_tested =
              Cardinality({k \in 1..Len(compatCalls) :
                              compatCalls[k].mc = ret.body.mc_new})

\* C16: _compare_versions is reflexive and antisymmetric: compare(a, a) = 0
\* and compare(a, b) = -compare(b, a), so that the two are 0 together.
C16_ReflexiveAntisymmetric ==
    pc = "compared" =>
        /\ result.aa = 0
        /\ result.ab = -result.ba
        /\ (result.ab = 0) <=> (result.ba = 0)

C16_Witness ==
    /\ pc = "compared"
    /\ v1 = <<"9", ".", "1", "a">>
    /\ v2 = <<"9">>
    /\ result.ab = 1
    /\ result.ba = -1
    /\ result.aa = 0

\* C17 as stated: _compare_versions is transitive over a sample that may mix
\* numeric and non-numeric segments: compare(a, b) >= 0 and compare(b, c) >= 0
\* give compare(a, c) >= 0, strictly when either premise is strict.
C17_Transitive ==
    (pc = "compared3" /\ result.ab >= 0 /\ result.bc >= 0)
    => /\ result.ac >= 0
       /\ (result.ab > 0 \/ result.bc > 0) => result.ac > 0

\* the integer tuple of a version with numeric segments only, and the
\* lexicographic order of two tuples padded with zeros to the same length
AllNumeric(v) ==
    LET segs == SplitOn(v, ".") IN
    \A i \in 1..Len(segs) :
        /\ Len(segs[i]) > 0
        /\ \A j \in 1..Len(segs[i]) : IsDecDigit(segs[i][j])
RECURSIVE Pow10(_)
Pow10(k) == IF k = 0 THEN 1 ELSE 10 * Pow10(k - 1)
RECURSIVE DigitSum(_, _)
DigitSum(x, j) ==
    IF j > Len(x) THEN 0
    ELSE DigitValue(x[j]) * Pow10(Len(x) - j) + DigitSum(x, j + 1)
IntTuple(v) ==
    LET segs == SplitOn(v, ".") IN [i \in 1..Len(segs) |-> DigitSum(segs[i], 1)]
Padded(t, i) == IF i <= Len(t) THEN t[i] ELSE 0
TupleOrder(t1, t2) ==
    LET n == IF Len(t1) >= Len(t2) THEN Len(t1) ELSE Len(t2)
        differ == {i \in 1..n : Padded(t1, i) # Padded(t2, i)} IN
    IF differ = {} THEN 0
    ELSE LET k == CHOOSE i \in differ : \A j \in differ : i <= j IN
         IF Padded(t1, k) > Padded(t2, k) THEN 1 ELSE -1

\* C18: on two versions whose dot-separated segments are all numeric,
\* _compare_versions is the lexicographic order of their integer tuples padded
\* with zeros: "1.2.10" against "1.2.9" is greater, "1.2" against "1.2.0" equal.
C18_NumericIsTupleOrder ==
    (pc = "compared" /\ AllNumeric(v1) /\ AllNumeric(v2))
    => /\ result.ab = TupleOrder(IntTuple(v1), IntTuple(v2))
       /\ (v1 = <<"1", ".", "2", ".", "1", "0">> /\ v2 = <<"1", ".", "2", ".", "9">>)
          => result.ab = 1
       /\ (v1 = <<"1", ".", "2">> /\ v2 = <<"1", ".", "2", ".", "0">>)
          => result.ab = 0

C18_Witness ==
    /\ pc = "compared"
    /\ v1 = <<"1", ".", "2", ".", "1", "0">>
    /\ v2 = <<"1", ".", "2", ".", "9">>
    /\ result.ab = 1
    /\ result.ba = -1

\* C19 as stated: for every version v and suffix s, v with "-" and s behind
\* it, and v with "+" and s behind it, compare equal to v.
C19_Original ==
    pc = "suffixed" => (result.dash = 0 /\ result.plus = 0)

\* C19 as amended: the suffixed version compares equal to v whenever the
\* segments of v parse; when a segment of v is accepted by isdigit() and
\* rejected by int(), the raw string order decides and the suffixed version
\* is greater.
C19_SuffixIgnoredWhenParsed ==
    pc = "suffixed" =>
        IF PartsRaise(CleanVersion(v1))
        THEN result.dash = 1 /\ result.plus = 1
        ELSE result.dash = 0 /\ result.plus = 0

C19_Witness ==
    /\ pc = "suffixed"
    /\ v1 = <<"9", ".", "0">>
    /\ v2 = <<"1", "a">>
    /\ result.dash = 0
    /\ result.plus = 0

\* the entry a resolution was produced from is the first entry, in the
\* registry's order, that lists the loader and the engine version
FromFirstListing ==
    /\ resolution.body.index = FirstListing(mod_payload)
    /\ ListsLoaderAndEngine(mod_payload[resolution.body.index])

\* C20 as stated: a mod resolution is only ever produced from the first
\* registry entry listing both the requested loader and the requested engine
\* version, never from an entry lacking either, and the url returned is the
\* url of that entry's first file.
C20_FirstListingCandidate ==
    (pc = "resolved" /\ ~resolution.isNone) =>
        /\ FromFirstListing
        /\ resolution.body.site # "validate_config" =>
              /\ Len(mod_payload[resolution.body.index].files) > 0
              /\ resolution.body.url = mod_payload[resolution.body.index].files[1]

C13_StaleReplayRunsNormally ==
    /\ [](mode = "cache"
          => /\ stale_warned = (replayed.body.minecraft_version # mc_version)
             /\ download_list = replayed.body.downloads)
    /\ (mode = "cache")
       ~> (/\ pc = "done"
           /\ mode = "cache"
           /\ Len(itemLog) = Len(replayed.body.downloads)
           /\ \A k \in 1..Len(itemLog) :
                itemLog[k].type = replayed.body.downloads[k].type)

C13_Witness ==
    /\ pc = "done"
    /\ mode = "cache"
    /\ replayed.body.minecraft_version = "E1"
    /\ stale_warned
    /\ Len(itemLog) = 3
    /\ success_count + fail_count = 3

\* C14: after every _download_file call that returned False no file is at
\* the destination, and no destination that the 'exists, skip' check looks at
\* ever holds a truncated file.
C14_FailedDownloadLeavesNoFile ==
    pc \in {"downloading", "saving", "done"} =>
        /\ \A k \in 1..Len(dlLog) : ~dlLog[k].ok => dlLog[k].after = "absent"
        /\ fs[EnginePath] # "partial"
        /\ fs[LoaderPath] # "partial"

C14_Witness ==
    /\ pc = "done"
    /\ \E k \in 1..Len(dlLog) :
        /\ dlLog[k].cut
        /\ ~dlLog[k].ok
        /\ dlLog[k].destination = EnginePath
        /\ fs[EnginePath] = "absent"
    /\ fail_count >= 1

\* the mod of the config with the name given
ModNamed(name) == mods[CHOOSE i \in 1..Len(mods) : mods[i].name = name]

\* C15: in the plan build_download_list returns, a mod item of environment
\* both has two destinations, the server path and then the path in the client
\* subdirectory, and a mod item of environment client or server has one.
C15_DestinationsByEnvironment ==
    pc = "built" =>
        \A k \in 1..Len(download_list) :
            LET item == download_list[k] IN
            item.type = "mod" =>
                LET dir == TargetDir(ModNamed(item.name).source)
                    file == ModFileOf(item.name) IN
                /\ item.environment = "both"
                   => item.destinations =
                        <<PathJoin(dir, file),
                          PathJoin(PathJoin(dir, "client"), file)>>
                /\ item.environment = "server"
                   => item.destinations = <<PathJoin(dir, file)>>
                /\ item.environment = "client"
                   => item.destinations =
                        <<PathJoin(PathJoin(dir, "client"), file)>>

C15_Witness ==
    /\ pc = "built"
    /\ Len(download_list) = 3
    /\ download_list[3].type = "mod"
    /\ download_list[3].environment = "both"
    /\ Len(download_list[3].destinations) = 2
    /\ download_list[3].destinations[1] = ModServerPath
    /\ download_list[3].destinations[2] = ModClientPath

\* the plan items of the mod with the name given, and the registry requests
\* made for it
ItemsOf(name) == {k \in 1..Len(download_list) : download_list[k].name = name}
CallsOf(name) == {k \in 1..Len(registry_calls) : registry_calls[k].for = name}

\* C21: with no credential of the secondary registry set, a mod of that
\* registry gets no plan item and no registry request is made for it, and
\* build_download_list returns with every other item of the config resolved
\* as its own registry answered: the engine when the manifest resolved it,
\* the loader, a mod of the primary registry when its request resolved it,
\* and a custom mod with a download url.
C21_MissingKeySkipsOnlyThatMod ==
    (pc = "built" /\ KeyMissing(curseforge_api_key)) =>
        /\ \A i \in 1..Len(mods) :
            LET mod == mods[i] IN
            /\ mod.source = "curseforge"
               => ItemsOf(mod.name) = {} /\ CallsOf(mod.name) = {}
            /\ mod.source = "modrinth"
               => (ItemsOf(mod.name) # {}
                   <=> /\ mod.version # NoneStr
                       /\ \E k \in CallsOf(mod.name) : registry_calls[k].ok)
            /\ mod.source = "custom"
               => (ItemsOf(mod.name) # {}
                   <=> mod.version # NoneStr /\ mod.download_url # NoneStr)
        /\ ItemsOf("Fabric Loader") # {}
        /\ ItemsOf("Minecraft Server") # {} <=> registry_calls[1].ok
        /\ \A k \in 1..Len(registry_calls) :
            registry_calls[k].registry # "curseforge"

C21_Witness ==
    /\ pc = "built"
    /\ curseforge_api_key = NoneStr
    /\ Len(mods) = 2
    /\ mods[1].source = "curseforge"
    /\ mods[1].version = "V1"
    /\ mods[1].project_id = "cf1"
    /\ mods[2].source = "modrinth"
    /\ Len(download_list) = 3
    /\ download_list[3].name = "M2"
    /\ Len(registry_calls) = 2

\* the environment the side-support table gives; "unspecified" for a pair
\* the table does not cover
SupportedSide(side) == side \in {"required", "optional"}
TableEnvironment(client_side, server_side) ==
    IF SupportedSide(client_side) /\ SupportedSide(server_side) THEN "both"
    ELSE IF SupportedSide(client_side) /\ server_side = "unsupported" THEN "client"
    ELSE IF SupportedSide(server_side) /\ client_side = "unsupported" THEN "server"
    ELSE "unspecified"

\* C22: whenever _find_latest_modrinth_version or _validate_modrinth_mod
\* classified a project info carrying client_side and server_side out of
\* required, optional and unsupported, the environment is both when each side
\* is required or optional, client when the client side is required or
\* optional and the server side unsupported, and server when the server side
\* is required or optional and the client side unsupported.
C22_EnvironmentBySideSupport ==
    (/\ pc = "resolved"
     /\ ~resolution.isNone
     /\ resolution.body.site \in {"validate_config", "validate_mod"}
     /\ ~project_info.isNone
     /\ project_info.body.client_side # NoneStr
     /\ project_info.body.server_side # NoneStr)
    => LET expected == TableEnvironment(project_info.body.client_side,
                                        project_info.body.server_side) IN
       expected # "unspecified" => resolution.body.environment = expected

C22_Witness ==
    /\ pc = "resolved"
    /\ ~resolution.isNone
    /\ resolution.body.site = "validate_mod"
    /\ resolution.body.ret
    /\ ~project_info.isNone
    /\ project_info.body.client_side = "unsupported"
    /\ project_info.body.server_side = "optional"
    /\ resolution.body.environment = "server"
    /\ resolution.body.written = "server"

\* ---------------------------------------------------- check_updates main
MaxMainManifest == 1    \* entries of the manifest main's engine check reads
MaxMainLoaders == 1     \* items of the loader payload main's check reads
MaxCheckedMods == 2     \* mods check_mod_updates walks over

\* the variables main's single-axis checks never touch
besideMain == <<bldVars, cmpVars, resVars, dlVars, engineVars, loaderVars,
                clientVars, walkVars, mod_details, missing_mods, resolvedFor,
                outcome, loaderCalls, compatCalls, modQueried>>

\* argparse: the flags of one invocation
ArgSets == [all : BOOLEAN, mc : BOOLEAN, fabric : BOOLEAN, mods : BOOLEAN,
            full_check : BOOLEAN, mc_version : {NoneStr, "E1"}]

\* check_all = args.all or not (args.mc or args.fabric or args.mods)
CheckAll(a) == a.all \/ ~(a.mc \/ a.fabric \/ a.mods)

\* the conditions under which main runs each check
RunsEngineCheck(a) == CheckAll(a) \/ a.mc
RunsLoaderCheck_Gated(a, mc) == (CheckAll(a) \/ a.fabric) /\ mc.latest # NoneStr
RunsLoaderCheck(a, mc) == CheckAll(a) \/ a.fabric
RunsModCheck(a) ==
    CheckAll(a) \/ a.mods \/ (a.fabric /\ a.mc_version # NoneStr)

\* target_mc_version or self.mc_version
TargetOrCurrent(a) == IF a.mc_version # NoneStr THEN a.mc_version ELSE mc_version

\* manifest.get('latest', {}).get('release')
LatestRelease(manifest) ==
    IF "latest" \in manifest.keys THEN "latest.release" ELSE NoneStr

\* check_minecraft_updates: (current, latest release, newer releases)
CheckMinecraftUpdates(resp) ==
    LET manifest == FetchJson(resp) IN
    IF manifest.isNone \/ manifest.body.keys = {} THEN NoResult(mc_version)
    ELSE [current |-> mc_version,
          latest |-> LatestRelease(manifest.body),
          newer |-> NewerReleases(ManifestVersions(manifest.body))]

\* the loop over available loader versions: stop at the current one
RECURSIVE NewerLoaders(_, _, _)
NewerLoaders(available, i, acc) ==
    IF i > Len(available) THEN acc
    ELSE IF available[i] = fabric_version THEN acc
    ELSE NewerLoaders(available, i + 1, Append(acc, available[i]))

\* check_fabric_updates: (current, latest, newer versions)
CheckFabricUpdates(resp) ==
    LET loader_data == FetchJson(resp) IN
    IF loader_data.isNone \/ Len(loader_data.body) = 0
    THEN NoResult(fabric_version)
    ELSE LET available == ExtractFabricVersions(loader_data.body) IN
         IF Len(available) = 0 THEN NoResult(fabric_version)
         ELSE [current |-> fabric_version,
               latest |-> available[1],
               newer |-> NewerLoaders(available, 1, <<>>)]

\* payloads main's checks read
MainManifestBodies ==
    {[keys |-> {}, versions |-> <<>>], [keys |-> {"latest"}, versions |-> <<>>]}
    \cup {[keys |-> k, versions |-> s] :
            k \in {{"versions"}, {"latest", "versions"}},
            s \in SeqsUpTo(VersionEntries, MaxMainManifest)}
MainLoaderBodies ==
    SeqsUpTo(LoaderIds \cup {fabric_version, NoneStr}, MaxMainLoaders)

\* versions as they are declared in the config and listed by the registry;
\* an absent or empty version is the empty string
NoVersion == <<>>
DeclaredVersions == {<<"9">>, <<"1", "0">>, <<"v", "9">>, <<"sup2">>}
RegistryVersions ==
    {<<"9">>, <<"1", "0">>, <<"1", "a">>, <<"9", "-", "a">>, <<"sup2">>}
UpdateEntries ==
    {[version_number |-> v, hasFiles |-> f.hasFiles, files |-> f.files] :
        v \in RegistryVersions \cup {NoVersion}, f \in FileLists}
UpdateBodies == SeqsUpTo(UpdateEntries, 1)

\* the mods check_mod_updates walks over: name and declared version
CheckedMods ==
    [name : {"M1", NoName}, version : DeclaredVersions \cup {NoVersion}]
LaterCheckedMods ==
    [name : {"M1"}, version : {<<"9">>, <<"1", "0">>}]
CheckedModLists ==
    UNION {{[i \in 1..k |-> IF i = 1 THEN first ELSE rest[i - 1]] :
              first \in CheckedMods, rest \in [1..(k - 1) -> LaterCheckedMods]} :
           k \in 1..MaxCheckedMods}
    \cup {<<>>}
MainModLists ==
    {<<>>, <<[name |-> "M1", version |-> <<"9">>]>>,
     <<[name |-> NoName, version |-> <<"9">>]>>}

\* lines 475-493: the branch that records an update
HasUpdate_NotEqual(latest_version, current_version) ==
    latest_version # current_version
HasUpdate(latest_version, current_version) ==
    IF latest_version = current_version THEN FALSE
    ELSE CompareVersions(latest_version, current_version) > 0

\* main lines 703-707: --full-check runs the cross-axis search, writes its
\* report and returns; the search itself is specified by Spec
FullCheckOutcomes ==
    {None, Some(CompatResult("E1", "L1", EmptyDict, <<"E1">>, <<"L1">>))}

MainFullCheck ==
    /\ pc = "start"
    /\ args.full_check
    /\ \E compat_data \in FullCheckOutcomes :
        /\ ret' = compat_data
        /\ report' = Some(Report(compat_data))
    /\ main_calls' = <<"find_compatible_updates", "save_compatibility_report">>
    /\ pc' = "saved"
    /\ UNCHANGED <<mods, valVars, regVars, besideMain, mod_i, project_id,
                   args, mc_result, fabric_result, mod_updates, updates,
                   up_to_date, has_updates, upd_errors, update_data, modLog>>

\* main lines 710-719: the engine check, when asked for
MainCheckMinecraft ==
    /\ pc = "start"
    /\ ~args.full_check
    /\ IF RunsEngineCheck(args)
       THEN /\ \E resp \in Responses(MainManifestBodies) :
                 mc_result' = CheckMinecraftUpdates(resp)
            /\ main_calls' = Append(main_calls, "check_minecraft_updates")
       ELSE /\ mc_result' = NoResult(mc_version)
            /\ UNCHANGED main_calls
    /\ fabric_result' = NoResult(fabric_version)
    /\ mod_updates' = EmptyDict
    /\ pc' = "check_fabric"
    /\ UNCHANGED <<mods, valVars, regVars, besideMain, mod_i, project_id,
                   ret, report, args, updates, up_to_date, has_updates,
                   upd_errors, update_data, modLog>>

\* main lines 721-727: the loader check, when asked for
MainCheckFabric ==
    /\ pc = "check_fabric"
    /\ IF RunsLoaderCheck(args, mc_result)
       THEN /\ \E resp \in Responses(MainLoaderBodies) :
                 fabric_result' = CheckFabricUpdates(resp)
            /\ main_calls' = Append(main_calls, "check_fabric_updates")
       ELSE UNCHANGED <<fabric_result, main_calls>>
    /\ pc' = "check_mods"
    /\ UNCHANGED <<mods, valVars, regVars, besideMain, mod_i, project_id,
                   ret, report, args, mc_result, mod_updates, updates,
                   up_to_date, has_updates, upd_errors, update_data, modLog>>

\* main lines 729-731 and check_mod_updates lines 424-435: the mod check is
\* entered, when asked for
MainCheckMods ==
    /\ pc = "check_mods"
    /\ IF RunsModCheck(args)
       THEN /\ main_calls' = Append(main_calls, "check_mod_updates")
            /\ updates' = EmptyDict
            /\ up_to_date' = 0
            /\ has_updates' = 0
            /\ upd_errors' = 0
            /\ mod_i' = 1
            /\ pc' = "upd_loop"
       ELSE /\ pc' = "save_updates"
            /\ UNCHANGED <<main_calls, updates, up_to_date, has_updates,
                           upd_errors, mod_i>>
    /\ UNCHANGED <<mods, valVars, regVars, besideMain, project_id, ret, report, args,
                   mc_result, fabric_result, mod_updates, update_data, modLog>>

\* what check_mod_updates found for one mod
ModLogEntry(mod, latest_version, reported) ==
    [name |-> mod.name, current |-> mod.version, latest |-> latest_version,
     reported |-> reported]

\* check_mod_updates lines 437-442: an entry without name or version
UpdSkipMod ==
    /\ pc = "upd_loop"
    /\ mod_i <= Len(mods)
    /\ mods[mod_i].name = NoName \/ mods[mod_i].version = NoVersion
    /\ mod_i' = mod_i + 1
    /\ UNCHANGED <<mods, valVars, regVars, pc, besideMain, project_id, ret, report, mainVars>>

\* check_mod_updates lines 447-452: the project search
UpdSearchProject ==
    /\ pc = "upd_loop"
    /\ mod_i <= Len(mods)
    /\ mods[mod_i].name # NoName /\ mods[mod_i].version # NoVersion
    /\ \E resp \in Responses(SearchBodies) :
        LET pid == SearchModrinthProject(mods[mod_i].name, resp) IN
        IF pid = NoneStr
        THEN /\ upd_errors' = upd_errors + 1
             /\ modLog' = Append(modLog, ModLogEntry(mods[mod_i], NoVersion, FALSE))
             /\ mod_i' = mod_i + 1
             /\ UNCHANGED <<pc, project_id>>
        ELSE /\ project_id' = pid
             /\ pc' = "upd_versions"
             /\ UNCHANGED <<upd_errors, modLog, mod_i>>
    /\ UNCHANGED <<mods, valVars, regVars, besideMain, ret, report, args, mc_result,
                   fabric_result, mod_updates, updates, up_to_date,
                   has_updates, update_data, main_calls>>

\* check_mod_updates lines 454-493: the first listed version is compared
\* with the declared one
UpdFetchVersions ==
    /\ pc = "upd_versions"
    /\ \E resp \in Responses(UpdateBodies) :
        LET listed == GetModVersions(resp)
            mod == mods[mod_i] IN
        IF Len(listed) = 0 \/ listed[1].version_number = NoVersion
        THEN /\ upd_errors' = upd_errors + 1
             /\ modLog' = Append(modLog, ModLogEntry(mod, NoVersion, FALSE))
             /\ mod_i' = mod_i + 1
             /\ pc' = "upd_loop"
             /\ UNCHANGED <<updates, up_to_date, has_updates>>
        ELSE LET latest == listed[1]
                 latest_version == latest.version_number IN
             IF HasUpdate(latest_version, mod.version)
             THEN /\ has_updates' = has_updates + 1
                  /\ modLog' = Append(modLog, ModLogEntry(mod, latest_version, TRUE))
                  /\ IF LatestUrl(latest) = "IndexError"
                     THEN /\ pc' = "crashed"
                          /\ UNCHANGED <<updates, mod_i>>
                     ELSE /\ updates' = DictSet(updates, mod.name,
                                            [current |-> mod.version,
                                             latest |-> latest_version,
                                             url |-> LatestUrl(latest)])
                          /\ mod_i' = mod_i + 1
                          /\ pc' = "upd_loop"
                  /\ UNCHANGED <<up_to_date, upd_errors>>
             ELSE /\ up_to_date' = up_to_date + 1
                  /\ modLog' = Append(modLog, ModLogEntry(mod, latest_version, FALSE))
                  /\ mod_i' = mod_i + 1
                  /\ pc' = "upd_loop"
                  /\ UNCHANGED <<updates, has_updates, upd_errors>>
    /\ UNCHANGED <<mods, valVars, regVars, besideMain, project_id, ret, report, args, mc_result,
                   fabric_result, mod_updates, update_data, main_calls>>

\* check_mod_updates line 498 and main line 731: the updates are returned
UpdReturn ==
    /\ pc = "upd_loop"
    /\ mod_i > Len(mods)
    /\ mod_updates' = updates
    /\ pc' = "save_updates"
    /\ UNCHANGED <<mods, valVars, regVars, besideMain, mod_i, project_id, ret, report, args,
                   mc_result, fabric_result, updates, up_to_date, has_updates,
                   upd_errors, update_data, main_calls, modLog>>

\* save_updates lines 545-567: the document built from the three results
UpdateData(mc, fabric, mod_upd) ==
    [minecraft |-> [current_version |-> mc.current,
                    latest_version |-> mc.latest,
                    has_update |-> Len(mc.newer) > 0,
                    newer_versions |-> mc.newer],
     fabric |-> [current_version |-> fabric.current,
                 latest_version |-> fabric.latest,
                 has_update |-> Len(fabric.newer) > 0,
                 newer_versions |-> fabric.newer],
     mods |-> [n \in DOMAIN mod_upd |->
                 [current_version |-> mod_upd[n].current,
                  latest_version |-> mod_upd[n].latest,
                  download_url |-> mod_upd[n].url]]]

\* main line 738 and save_updates: the document is written, or the write
\* fails and the process exits
SaveUpdates ==
    /\ pc = "save_updates"
    /\ update_data' = Some(UpdateData(mc_result, fabric_result, mod_updates))
    /\ main_calls' = Append(main_calls, "save_updates")
    /\ \E written \in BOOLEAN : pc' = IF written THEN "done" ELSE "exited"
    /\ UNCHANGED <<mods, valVars, regVars, besideMain, mod_i, project_id, ret, report, args,
                   mc_result, fabric_result, mod_updates, updates, up_to_date,
                   has_updates, upd_errors, modLog>>

InitMainCommon ==
    /\ InitSearchVars
    /\ InitValVars
    /\ InitRegVars
    /\ InitBldVars
    /\ InitClientVars
    /\ InitWalkVars
    /\ InitCmpVars
    /\ InitResVars
    /\ InitDlVars
    /\ InitMainResults

\* main of check_updates.py, one invocation
InitMain ==
    /\ mods \in MainModLists
    /\ args \in ArgSets
    /\ InitMainCommon

NextMain ==
    \/ MainFullCheck
    \/ MainCheckMinecraft
    \/ MainCheckFabric
    \/ MainCheckMods
    \/ UpdSkipMod
    \/ UpdSearchProject
    \/ UpdFetchVersions
    \/ UpdReturn
    \/ SaveUpdates

SpecMain == InitMain /\ [][NextMain]_vars

\* every statement of main runs to its end: no step waits on anything but
\* the registry's answer, which the client bounds with a timeout
FairSpecMain == SpecMain /\ WF_vars(NextMain)

\* main invoked with --mods alone, over configs with declared versions
InitModUpdates ==
    /\ mods \in CheckedModLists
    /\ args \in {a \in ArgSets : a.mods /\ ~a.all /\ ~a.mc /\ ~a.fabric
                                  /\ ~a.full_check}
    /\ InitMainCommon

NextModUpdates ==
    \/ MainCheckMinecraft
    \/ MainCheckFabric
    \/ MainCheckMods
    \/ UpdSkipMod
    \/ UpdSearchProject
    \/ UpdFetchVersions
    \/ UpdReturn
    \/ SaveUpdates

SpecModUpdates == InitModUpdates /\ [][NextModUpdates]_vars

Called(f) == \E i \in 1..Len(main_calls) : main_calls[i] = f

PastLoaderCheck ==
    pc \in {"check_mods", "upd_loop", "upd_versions", "save_updates", "done",
            "exited", "crashed"}
PastModCheck == PastLoaderCheck /\ pc # "check_mods"
MainEnded == pc \in {"saved", "done", "exited", "crashed"}

\* C23: in a run of main without --full-check the cross-axis search is never
\* called, and whether the loader check and the mod check run is decided by
\* the flags alone: once main is past the loader check, it has run exactly
\* when --fabric was given or everything is checked, whatever the engine
\* check returned; once main is past the mod check, it has run exactly when
\* --mods was given, or --fabric with --mc-version, or everything is checked,
\* whatever the engine and loader checks returned. Every run reaches its end.
C23_ChecksNeverGate ==
    /\ [](~args.full_check => ~Called("find_compatible_updates"))
    /\ [](PastLoaderCheck =>
            (Called("check_fabric_updates")
               <=> (args.fabric \/ args.all
                      \/ ~(args.mc \/ args.fabric \/ args.mods))))
    /\ [](PastModCheck =>
            (Called("check_mod_updates")
               <=> (args.mods \/ (args.fabric /\ args.mc_version # NoneStr)
                      \/ args.all \/ ~(args.mc \/ args.fabric \/ args.mods))))
    /\ <>MainEnded

\* C23 witness: the engine check and the loader check both came back without
\* a result and the mod check still ran, over a config with a mod, to the end
C23_Witness ==
    /\ pc = "done"
    /\ ~args.full_check
    /\ main_calls = <<"check_minecraft_updates", "check_fabric_updates",
                      "check_mod_updates", "save_updates">>
    /\ mc_result.latest = NoneStr /\ mc_result.newer = <<>>
    /\ fabric_result.latest = NoneStr
    /\ Len(modLog) = 1

\* the entries of the log for which an update was reported
ReportedEntries == {k \in 1..Len(modLog) : modLog[k].reported}
ModCheckReturned == pc \in {"save_updates", "done", "exited"}

\* C24: for every mod check_mod_updates looked at, an update is reported
\* exactly when the registry listed a first candidate with a version and that
\* version compares strictly greater than the declared one under
\* _compare_versions; the updates the call returns hold exactly the names
\* with a reported entry, each with the declared and listed version of the
\* last such entry, so a mod whose declared version is equal to or newer than
\* the first candidate contributes nothing to them.
C24_UpdateIffFirstCandidateGreater ==
    /\ \A k \in 1..Len(modLog) :
          modLog[k].reported
            <=> /\ modLog[k].latest # NoVersion
                /\ CompareVersions(modLog[k].latest, modLog[k].current) > 0
    /\ has_updates = Cardinality(ReportedEntries)
    /\ ModCheckReturned =>
         /\ DOMAIN mod_updates = {modLog[k].name : k \in ReportedEntries}
         /\ \A n \in DOMAIN mod_updates :
              \E k \in ReportedEntries :
                 /\ modLog[k].name = n
                 /\ \A j \in ReportedEntries : modLog[j].name = n => j <= k
                 /\ mod_updates[n].current = modLog[k].current
                 /\ mod_updates[n].latest = modLog[k].latest

\* C24 witness: two entries of one name; the one declared at 10 meets a first
\* candidate 9 and is not reported, the one declared at 9 meets 10 and is the
\* update returned
C24_Witness ==
    /\ pc = "done"
    /\ Len(modLog) = 2
    /\ modLog[1] = [name |-> "M1", current |-> <<"1", "0">>,
                    latest |-> <<"9">>, reported |-> FALSE]
    /\ modLog[2] = [name |-> "M1", current |-> <<"9">>,
                    latest |-> <<"1", "0">>, reported |-> TRUE]
    /\ DOMAIN mod_updates = {"M1"}
    /\ mod_updates["M1"].current = <<"9">>

\* C25 as stated: after a run of download_all or download_from_cache the
\* engine version in the persisted cache is the engine version under which
\* the persisted plan was built: after a replay that is the version the
\* cache recorded for the plan when the run began (so a stale plan is still
\* stale for the next replay), after a rebuild that was saved it is the live
\* version.
C25_CacheVersionIsBuildVersion ==
    (pc = "done" /\ ~cache_file.isNone) =>
        /\ (mode = "cache" /\ ~replayed.isNone) =>
              /\ cache_file.body.downloads = replayed.body.downloads
              /\ cache_file.body.minecraft_version
                    = replayed.body.minecraft_version
        /\ (mode = "rebuild" /\ cache_file = cache /\ Len(download_list) > 0) =>
              cache_file.body.minecraft_version = mc_version

FixedSearchAnswers ==
    {[kind |-> "404", body |-> <<>>],
     [kind |-> "ok", body |-> [hasHits |-> TRUE, hits |-> <<>>]],
     [kind |-> "ok",
      body |-> [hasHits |-> TRUE,
                hits |-> <<[slug |-> "m1", title |-> "M1",
                            project_id |-> "P1"]>>]]}
FixedVersionAnswers ==
    {[kind |-> "5xx", body |-> <<>>],
     [kind |-> "ok", body |-> <<[version_number |-> "V1", hasFiles |-> TRUE,
                                 files |-> <<"U1">>]>>],
     [kind |-> "ok", body |-> <<[version_number |-> NoneStr, hasFiles |-> TRUE,
                                 files |-> <<"U1">>]>>],
     [kind |-> "ok", body |-> <<[version_number |-> "V1", hasFiles |-> TRUE,
                                 files |-> <<>>]>>]}
Registries ==
    [search : [ModNames -> FixedSearchAnswers],
     versions : [ProjectIds -> FixedVersionAnswers]]

\* the loader candidates of the engine candidate
FixedLoaderLists == SeqsUpTo(LoaderIds, MaxLoaderItems) \ {<<>>}

\* find_compatible_updates at the entry of the loader loop of the first
\* engine candidate (line 369), the registry's contents fixed for the run
InitFixedRegistry ==
    /\ mods \in ModLists
    /\ registry \in Registries
    /\ pc = "mod_loop"
    /\ newer_mc_versions = <<"E1">>
    /\ newerExpected = <<"E1">>
    /\ manifestAnswer = "some"
    /\ mc_i = 1
    /\ fabric_versions \in FixedLoaderLists
    /\ fabricExpected = fabric_versions
    /\ loaderCalls = <<[i |-> 1, mc |-> "E1", answer |-> "some",
                        n |-> Len(fabric_versions)]>>
    /\ fab_i = 1
    /\ mod_i = 1
    /\ project_id = NoneStr
    /\ mod_details = EmptyDict
    /\ missing_mods = <<>>
    /\ ret = None
    /\ report = None
    /\ outcome = "running"
    /\ compatCalls = <<>>
    /\ modQueried = {}
    /\ resolvedFor = EmptyDict
    /\ InitValVars
    /\ InitMainVars
    /\ InitBldVars
    /\ InitClientVars
    /\ InitWalkVars
    /\ InitCmpVars
    /\ InitResVars
    /\ InitDlVars

\* the search is answered from the registry's contents
FixedSearchProject ==
    /\ pc = "mod_loop"
    /\ mod_i <= Len(mods)
    /\ mods[mod_i] # NoName
    /\ SearchProjectFrom({registry.search[mods[mod_i]]})

\* the version query is answered from the registry's contents
FixedFetchModVersions ==
    /\ pc = "mod_versions"
    /\ FetchModVersionsFrom({registry.versions[project_id]})

NextFixedRegistry ==
    \/ SkipUnnamedMod
    \/ FixedSearchProject
    \/ FixedFetchModVersions
    \/ CompatVerdict
    \/ SaveCompatibilityReport

SpecFixedRegistry == InitFixedRegistry /\ [][NextFixedRegistry]_vars

\* what the fixed registry holds for a mod name: the project the search
\* gives, and the first listed version of that project
RegistryProject(n) == SearchModrinthProject(n, registry.search[n])
RegistryListed(n) == GetModVersions(registry.versions[RegistryProject(n)])
RegistryResolves(n) ==
    /\ RegistryProject(n) # NoneStr
    /\ Len(RegistryListed(n)) > 0
    /\ RegistryListed(n)[1].version_number # NoneStr

C28_ModItemsHaveADestination ==
    /\ \A k \in 1..Len(download_list) :
          download_list[k].type = "mod" => Len(download_list[k].destinations) >= 1
    /\ pc # "crashed"

\* C29 as stated: a run of download_all over a non-empty plan ends, and ends
\* with the persisted cache holding exactly the live engine version and the
\* plan processed, whatever the downloads did; a run over an empty plan
\* leaves the persisted cache as it was.
C29_CacheOverwrittenAtEnd ==
    /\ Len(download_list) > 0 =>
          /\ pc \in {"downloading", "saving", "done"}
          /\ pc = "done" => cache_file = CacheDoc(mc_version, download_list)
    /\ (pc = "done" /\ Len(download_list) = 0) =>
          /\ cache_file = cache
          /\ mode = "cache" => cache_file = replayed

\* ------------------------------------------------ ConfigValidator.validate
MaxValidatedMods == 2   \* mods of the config under validation

\* the variables the validator never touches
besideValidate == <<mods, regVars, mainVars, besideMain, project_id, ret,
                    report>>

\* Python's True and False as step results
PyBool(b) == IF b THEN "True" ELSE "False"

\* what _load_yaml meets: a missing file, an empty document, a document
LoadKinds == {"missing", "empty", "ok"}

\* the response to the HEAD request of validate_fabric_version: status 200,
\* another success status, HTTP 404, another HTTP error, no response
HeadOutcomes == {"200", "204", "404", "5xx", "timeout"}

\* validate_mod_version: the version is there; it was resolved or fixed and
\* written to the config; the source is not checked (warning); or it is not
\* available (error)
ModOutcomes == {"valid", "fixed", "unchecked", "invalid"}

\* the config and mappings files as validate meets them: faults says that a
\* section check of validate_structure fails; the versions are strings,
\* possibly empty
ValidateInputs ==
    [config : LoadKinds, mappings : LoadKinds, faults : BOOLEAN,
     minecraft_version : {"", mc_version},
     fabric_version : {"", fabric_version},
     n_mods : 0..MaxValidatedMods]

\* validate lines 798-800 after validate_structure returned False
ReturnEarly ==
    /\ validate_ret' = "False"
    /\ pc' = "validated"

\* validate_structure, and validate lines 798-800
ValidateStructure ==
    /\ pc = "start"
    /\ IF val_in.config # "ok"
       THEN /\ errors' = IF val_in.config = "missing"
                         THEN Append(errors, "File not found") ELSE errors
            /\ step_ret' = [step_ret EXCEPT !["structure"] = "False"]
            /\ ReturnEarly
       ELSE IF val_in.mappings # "ok"
       THEN /\ errors' = IF val_in.mappings = "missing"
                         THEN Append(errors, "File not found") ELSE errors
            /\ step_ret' = [step_ret EXCEPT !["structure"] = "False"]
            /\ ReturnEarly
       ELSE /\ errors' = IF val_in.faults
                         THEN Append(errors, "Missing required section")
                         ELSE errors
            /\ step_ret' = [step_ret EXCEPT
                              !["structure"] = PyBool(Len(errors') = 0)]
            /\ IF Len(errors') = 0
               THEN pc' = "v_minecraft" /\ UNCHANGED validate_ret
               ELSE ReturnEarly
    /\ UNCHANGED <<besideValidate, mod_i, val_in, warnings, all_valid,
                   config_modified, yaml_saved>>

\* validate_minecraft_version
ValidateMinecraftVersion ==
    /\ pc = "v_minecraft"
    /\ IF val_in.minecraft_version = ""
       THEN /\ step_ret' = [step_ret EXCEPT !["minecraft"] = "False"]
            /\ UNCHANGED errors
       ELSE \E resp \in Responses(MainManifestBodies) :
            LET manifest == FetchJson(resp) IN
            IF manifest.isNone \/ manifest.body.keys = {}
            THEN /\ errors' = Append(errors, "Failed to fetch manifest")
                 /\ step_ret' = [step_ret EXCEPT !["minecraft"] = "False"]
            ELSE LET vs == ManifestVersions(manifest.body) IN
                 IF \E i \in 1..Len(vs) : vs[i].id = val_in.minecraft_version
                 THEN /\ step_ret' = [step_ret EXCEPT !["minecraft"] = "True"]
                      /\ UNCHANGED errors
                 ELSE /\ errors' = Append(errors, "Minecraft version not found")
                      /\ step_ret' = [step_ret EXCEPT !["minecraft"] = "False"]
    /\ pc' = "v_fabric"
    /\ UNCHANGED <<besideValidate, mod_i, val_in, warnings, all_valid,
                   config_modified, yaml_saved, validate_ret>>

\* validate_fabric_version
ValidateFabricVersion ==
    /\ pc = "v_fabric"
    /\ IF val_in.fabric_version = ""
       THEN /\ step_ret' = [step_ret EXCEPT !["fabric"] = "False"]
            /\ UNCHANGED <<errors, warnings>>
       ELSE \E head \in HeadOutcomes :
            CASE head = "200" ->
                    /\ step_ret' = [step_ret EXCEPT !["fabric"] = "True"]
                    /\ UNCHANGED <<errors, warnings>>
              [] head = "404" ->
                    /\ errors' = Append(errors, "Fabric version not found")
                    /\ step_ret' = [step_ret EXCEPT !["fabric"] = "False"]
                    /\ UNCHANGED warnings
              [] head = "timeout" ->
                    /\ warnings' = Append(warnings, "Could not verify Fabric version")
                    /\ step_ret' = [step_ret EXCEPT !["fabric"] = "True"]
                    /\ UNCHANGED errors
              [] OTHER ->
                    \* line 271, after a status other than 200 or an HTTP
                    \* error other than 404
                    /\ step_ret' = [step_ret EXCEPT !["fabric"] = "False"]
                    /\ UNCHANGED <<errors, warnings>>
    /\ pc' = "v_mods"
    /\ mod_i' = 1
    /\ all_valid' = TRUE
    /\ UNCHANGED <<besideValidate, val_in, config_modified, yaml_saved,
                   validate_ret>>

\* validate_mod_versions lines 780-784: one mod is validated
ValidateModVersion ==
    /\ pc = "v_mods"
    /\ mod_i <= val_in.n_mods
    /\ \E verdict \in ModOutcomes :
        /\ errors' = IF verdict = "invalid"
                     THEN Append(errors, "Mod version not available")
                     ELSE errors
        /\ warnings' = IF verdict = "unchecked"
                       THEN Append(warnings, "Validation not implemented")
                       ELSE warnings
        /\ config_modified' = (config_modified \/ verdict = "fixed")
        /\ all_valid' = (all_valid /\ verdict # "invalid")
    /\ mod_i' = mod_i + 1
    /\ UNCHANGED <<besideValidate, pc, val_in, step_ret, yaml_saved,
                   validate_ret>>

\* validate_mod_versions line 786: the loop is over
ValidateModVersions ==
    /\ pc = "v_mods"
    /\ mod_i > val_in.n_mods
    /\ step_ret' = [step_ret EXCEPT !["mods"] = PyBool(all_valid)]
    /\ pc' = "v_report"
    /\ UNCHANGED <<besideValidate, mod_i, val_in, errors, warnings, all_valid,
                   config_modified, yaml_saved, validate_ret>>

\* validate lines 811-844: the config is written back when it was modified,
\* and the result is whether any error was recorded
ValidateReport ==
    /\ pc = "v_report"
    /\ yaml_saved' = config_modified
    /\ validate_ret' = PyBool(Len(errors) = 0)
    /\ pc' = "validated"
    /\ UNCHANGED <<besideValidate, mod_i, val_in, errors, warnings, step_ret,
                   all_valid, config_modified>>

InitValidate ==
    /\ mods = <<>>
    /\ InitSearchVars
    /\ InitRegVars
    /\ InitMainVars
    /\ InitBldVars
    /\ InitClientVars
    /\ InitWalkVars
    /\ InitCmpVars
    /\ InitResVars
    /\ InitDlVars
    /\ val_in \in ValidateInputs
    /\ InitValidatorFields

NextValidate ==
    \/ ValidateStructure
    \/ ValidateMinecraftVersion
    \/ ValidateFabricVersion
    \/ ValidateModVersion
    \/ ValidateModVersions
    \/ ValidateReport

SpecValidate == InitValidate /\ [][NextValidate]_vars

\* C30 as stated: when validate has returned, it returned True only if each
\* of the four steps returned True, and if any step returned False then an
\* error is recorded and validate returned False.
C30_TrueOnlyIfEveryStepTrue ==
    pc = "validated" =>
        /\ validate_ret = "True" =>
              \A st \in ValidateSteps : step_ret[st] = "True"
        /\ (\E st \in ValidateSteps : step_ret[st] = "False") =>
              /\ Len(errors) > 0
              /\ validate_ret = "False"

====
